---- MODULE Spec2Model ----
(***************************************************************************)
(* Streaming inference client of yokai-chat: LMStudioService               *)
(* (sendMessageStream / processStream), the messages store and the         *)
(* ChatView.handleSend coordination.                                       *)
(*                                                                         *)
(* Strings are sequences of tokens.  Wire text (the SSE body) is kept at   *)
(* character level, one token per character, so that a transport chunk     *)
(* can end at any character.  Human readable messages (error texts, user   *)
(* input) are kept at word level.                                          *)
(***************************************************************************)
EXTENDS Integers, Sequences, FiniteSets, TLC

(***************************************************************************)
(* Bounds of the model.                                                    *)
(***************************************************************************)
\* lines of one server stream in the decoder specifications
MaxLines == 3
\* lines of one server stream when one line is split over two chunks
MaxSplitLines == 2

(***************************************************************************)
(* String helpers (JavaScript String methods used by the code).            *)
(***************************************************************************)
Whitespace == {" ", "\t", "\r", "\n"}

StartsWith(s, p) == Len(s) >= Len(p) /\ SubSeq(s, 1, Len(p)) = p

Slice(s, n) == SubSeq(s, n + 1, Len(s))

Includes(s, p) == \E i \in 0..(Len(s) - Len(p)) : SubSeq(s, i + 1, i + Len(p)) = p

RECURSIVE TrimStart(_)
TrimStart(s) == IF s # <<>> /\ Head(s) \in Whitespace THEN TrimStart(Tail(s)) ELSE s

RECURSIVE TrimEnd(_)
TrimEnd(s) ==
    IF s # <<>> /\ s[Len(s)] \in Whitespace THEN TrimEnd(SubSeq(s, 1, Len(s) - 1)) ELSE s

Trim(s) == TrimEnd(TrimStart(s))

RECURSIVE Split(_, _)
Split(s, sep) ==
    IF \E i \in 1..Len(s) : s[i] = sep
    THEN LET i == CHOOSE k \in 1..Len(s) : s[k] = sep /\ \A j \in 1..(k - 1) : s[j] # sep
         IN  <<SubSeq(s, 1, i - 1)>> \o Split(SubSeq(s, i + 1, Len(s)), sep)
    ELSE <<s>>

RECURSIVE Concat(_)
Concat(ss) == IF ss = <<>> THEN <<>> ELSE Head(ss) \o Concat(Tail(ss))

(***************************************************************************)
(* Wire format.                                                            *)
(***************************************************************************)
DataPrefix == <<"d", "a", "t", "a", ":", " ">>

DoneText == <<"[", "D", "O", "N", "E", "]">>

\* {"choices":[{"delta":{"content":"
DeltaOpen ==
    <<"{", "\"", "c", "h", "o", "i", "c", "e", "s", "\"", ":", "[", "{", "\"",
      "d", "e", "l", "t", "a", "\"", ":", "{", "\"",
      "c", "o", "n", "t", "e", "n", "t", "\"", ":", "\"">>

\* "}}]}
DeltaClose == <<"\"", "}", "}", "]", "}">>

\* {"error":{"message":"
ErrorOpen ==
    <<"{", "\"", "e", "r", "r", "o", "r", "\"", ":", "{", "\"",
      "m", "e", "s", "s", "a", "g", "e", "\"", ":", "\"">>

\* "}}
ErrorClose == <<"\"", "}", "}">>

EndsWith(s, p) == Len(s) >= Len(p) /\ SubSeq(s, Len(s) - Len(p) + 1, Len(s)) = p

\* the characters of s between a leading p and a trailing q
Between(s, p, q) == SubSeq(s, Len(p) + 1, Len(s) - Len(q))

\* a JSON string body without escapes
PlainChars(s) == \A i \in 1..Len(s) : s[i] \notin {"\"", "\\", "\n", "\r", "\t"}

Wraps(s, p, q) ==
    /\ Len(s) >= Len(p) + Len(q)
    /\ StartsWith(s, p)
    /\ EndsWith(s, q)
    /\ PlainChars(Between(s, p, q))

\* JSON.parse restricted to the two record shapes the server sends; any other
\* text of the model's universe (truncated records, "[DONE]" fragments, the
\* empty string) is not JSON and throws.
JSONParse(text) ==
    LET t == Trim(text) IN
    IF Wraps(t, ErrorOpen, ErrorClose)
    THEN [type |-> "error", text |-> Between(t, ErrorOpen, ErrorClose)]
    ELSE IF Wraps(t, DeltaOpen, DeltaClose)
    THEN [type |-> "delta", text |-> Between(t, DeltaOpen, DeltaClose)]
    ELSE [type |-> "SyntaxError", text |-> <<>>]

UnknownError == <<"Unknown", "error">>

OnChunk(text) == [kind |-> "chunk", arg |-> text]

OnError(text) == [kind |-> "error", arg |-> text]

NoCalls == [calls |-> <<>>, ret |-> FALSE]

\* ProcessLine with the return after onError left out
ProcessLineErrorContinues(line) ==
    IF ~StartsWith(line, DataPrefix) THEN NoCalls
    ELSE LET data == Slice(line, 6) IN
         IF data = DoneText THEN [calls |-> <<>>, ret |-> TRUE]
         ELSE LET parsed == JSONParse(data) IN
              IF parsed.type = "SyntaxError" THEN NoCalls
              ELSE IF parsed.type = "error"
              THEN [calls |-> <<OnError(IF parsed.text # <<>> THEN parsed.text
                                        ELSE UnknownError)>>,
                    ret |-> FALSE]
              ELSE IF parsed.text # <<>>
              THEN [calls |-> <<OnChunk(parsed.text)>>, ret |-> FALSE]
              ELSE NoCalls

\* ProcessLine with the terminator test left out: "[DONE]" goes to JSON.parse
ProcessLineDoneIgnored(line) ==
    IF ~StartsWith(line, DataPrefix) THEN NoCalls
    ELSE LET parsed == JSONParse(Slice(line, 6)) IN
         IF parsed.type = "SyntaxError" THEN NoCalls
         ELSE IF parsed.type = "error"
         THEN [calls |-> <<OnError(IF parsed.text # <<>> THEN parsed.text
                                   ELSE UnknownError)>>,
               ret |-> TRUE]
         ELSE IF parsed.text # <<>>
         THEN [calls |-> <<OnChunk(parsed.text)>>, ret |-> FALSE]
         ELSE NoCalls

\* ProcessLine without the inner try/catch: a SyntaxError leaves processStream
\* and is reported by the caller's catch block
ProcessLineSyntaxErrorReported(line) ==
    IF ~StartsWith(line, DataPrefix) THEN NoCalls
    ELSE LET data == Slice(line, 6) IN
         IF data = DoneText THEN [calls |-> <<>>, ret |-> TRUE]
         ELSE LET parsed == JSONParse(data) IN
              IF parsed.type = "SyntaxError"
              THEN [calls |-> <<OnError(<<"Unexpected", "token">>)>>, ret |-> TRUE]
              ELSE IF parsed.type = "error"
              THEN [calls |-> <<OnError(IF parsed.text # <<>> THEN parsed.text
                                        ELSE UnknownError)>>,
                    ret |-> TRUE]
              ELSE IF parsed.text # <<>>
              THEN [calls |-> <<OnChunk(parsed.text)>>, ret |-> FALSE]
              ELSE NoCalls

\* the body of the for loop of processStream for one line: the callback calls
\* it makes and whether it returns from processStream
ProcessLine(line) ==
    IF ~StartsWith(line, DataPrefix) THEN NoCalls
    ELSE LET data == Slice(line, 6) IN
         IF data = DoneText THEN [calls |-> <<>>, ret |-> TRUE]
         ELSE LET parsed == JSONParse(data) IN
              IF parsed.type = "SyntaxError" THEN NoCalls
              ELSE IF parsed.type = "error"
              THEN [calls |-> <<OnError(IF parsed.text # <<>> THEN parsed.text
                                        ELSE UnknownError)>>,
                    ret |-> TRUE]
              ELSE IF parsed.text # <<>>
              THEN [calls |-> <<OnChunk(parsed.text)>>, ret |-> FALSE]
              ELSE NoCalls

RECURSIVE ProcessLines(_, _)
ProcessLines(lines, calls) ==
    IF lines = <<>> THEN [calls |-> calls, ret |-> FALSE]
    ELSE LET o == ProcessLine(Head(lines)) IN
         IF o.ret THEN [calls |-> calls \o o.calls, ret |-> TRUE]
         ELSE ProcessLines(Tail(lines), calls \o o.calls)

IsBlank(line) == Trim(line) = <<>>

\* ChunkLines that keeps only the first line of a chunk
ChunkLinesFirstOnly(chunk) ==
    LET ls == SelectSeq(Split(chunk, "\n"), LAMBDA l : ~IsBlank(l)) IN
    IF ls = <<>> THEN ls ELSE <<Head(ls)>>

\* chunk.split('\n').filter((line) => line.trim() !== '')
ChunkLines(chunk) == SelectSeq(Split(chunk, "\n"), LAMBDA l : ~IsBlank(l))

\* one pass of the while loop body after reader.read() returned a chunk
ProcessChunk(chunk) == ProcessLines(ChunkLines(chunk), <<>>)

(***************************************************************************)
(* The server side of one request: the lines it sends, grouped into the    *)
(* transport chunks that carry them, and the place where the transport     *)
(* cuts one chunk in two (none when at = 0).                               *)
(***************************************************************************)
Fragments == {<<"H", "e">>, <<"l", "l", "o">>, <<>>}

ErrorTexts == {<<"b", "u", "s", "y">>, <<>>}

Delta(c) == [kind |-> "delta", text |-> c]

Done == [kind |-> "done", text |-> <<>>]

ErrorLine(m) == [kind |-> "error", text |-> m]

Malformed == [kind |-> "malformed", text |-> <<>>]

Comment == [kind |-> "comment", text |-> <<>>]

LineKinds ==
    {Delta(c) : c \in Fragments} \cup {ErrorLine(m) : m \in ErrorTexts}
        \cup {Done, Malformed, Comment}

EncodeLine(l) ==
    CASE l.kind = "delta" -> DataPrefix \o DeltaOpen \o l.text \o DeltaClose
      [] l.kind = "done" -> DataPrefix \o DoneText
      [] l.kind = "error" -> DataPrefix \o ErrorOpen \o l.text \o ErrorClose
      [] l.kind = "malformed" -> DataPrefix \o <<"{", "o", "o", "p", "s">>
      [] OTHER -> <<":", " ", "p", "i", "n", "g">>

LineEnd == <<"\n", "\n">>

RECURSIVE EncodeChunk(_)
EncodeChunk(lines) ==
    IF lines = <<>> THEN <<>>
    ELSE EncodeLine(Head(lines)) \o LineEnd \o EncodeChunk(Tail(lines))

NoCut == [chunk |-> 0, at |-> 0]

\* the transport chunks the reader returns, in order
Wire(srv) ==
    LET whole == [i \in 1..Len(srv.chunks) |-> EncodeChunk(srv.chunks[i])] IN
    IF srv.cut.chunk = 0 THEN whole
    ELSE LET c == whole[srv.cut.chunk] IN
         SubSeq(whole, 1, srv.cut.chunk - 1)
             \o <<SubSeq(c, 1, srv.cut.at), SubSeq(c, srv.cut.at + 1, Len(c))>>
             \o SubSeq(whole, srv.cut.chunk + 1, Len(whole))

\* the lines of a chunk sequence, in the order sent
AllLines(chunks) == Concat(chunks)

\* every way of grouping a line sequence into non-empty chunks
RECURSIVE Groupings(_)
Groupings(lines) ==
    IF Len(lines) = 0 THEN {<<>>}
    ELSE UNION {{<<SubSeq(lines, 1, k)>> \o g : g \in Groupings(SubSeq(lines, k + 1, Len(lines)))}
                : k \in 1..Len(lines)}

Scripts(n) ==
    UNION {Groupings(ls) : ls \in UNION {[1..k -> LineKinds] : k \in 1..n}}

\* the offsets inside chunk text c that fall strictly inside a data line
RECURSIVE LineStarts(_, _)
LineStarts(lines, from) ==
    IF lines = <<>> THEN <<>>
    ELSE <<from>> \o LineStarts(Tail(lines), from + Len(EncodeLine(Head(lines))) + Len(LineEnd))

CutsInside(lines) ==
    LET starts == LineStarts(lines, 0) IN
    UNION {IF StartsWith(EncodeLine(lines[i]), DataPrefix)
           THEN {starts[i] + k : k \in 1..(Len(EncodeLine(lines[i])) - 1)}
           ELSE {} : i \in 1..Len(lines)}

SplitServers(n) ==
    UNION {{[chunks |-> s, cut |-> [chunk |-> c, at |-> k]] : k \in CutsInside(s[c])}
           \cup {[chunks |-> s, cut |-> NoCut]}
           : <<s, c>> \in {sc \in Scripts(n) \X (1..n) :
                              sc[2] <= Len(sc[1])}}

(***************************************************************************)
(* State.                                                                  *)
(***************************************************************************)
\* requests (handleSend calls) of one session
MaxRequests == 2
\* milliseconds the clock can advance
MaxTicks == 1
\* Date.now() when the session starts
ClockStart == 1000
\* clearMessages calls of one session
MaxClears == 1

Req == 1..MaxRequests

VARIABLES
    \* LMStudioService.sendMessageStream, one call per request
    pc,         \* where the call stands: none, idle, fetch, text, read, resolved, rejected
    aborted,    \* abortController.signal.aborted of the call's controller
    server,     \* what the server sends for the call
    status,     \* response.status, 0 before the response
    pos,        \* transport chunks read so far
    calls,      \* the onChunk / onError calls made so far, in order
    thrown,     \* the message of the Error the call rejected with
    abortedAt,  \* where the call stood when its controller was aborted
    sent,       \* the messages array of the request body
    \* messages store
    messages, isTyping, isStreaming, error, abortController,
    \* ChatView.handleSend closures, one per request
    accumulatedContent, assistantId,
    atAbort,    \* the onChunk calls a request had made when it was cancelled
    \* environment
    now,        \* Date.now()
    storage,    \* localStorage
    clears,     \* clearMessages calls so far
    \* utilities
    cache,      \* RequestCache.cache, in Map order
    lastSet,    \* per cache key, the last set call whose entry was not evicted
    ret,        \* the last utility call and what it returned
    \* models store
    models,     \* currentModel, availableModels, isLoadingModels and its calls so far
    \* contexts store
    contextsStore,  \* savedContexts, selectedContextIds, activeContextIds, last call
    \* BaseApiService
    apiRequest      \* one makeRequest call: its controllers, timer and outcome

svcVars == <<pc, aborted, server, status, pos, calls, thrown, abortedAt, sent>>

storeVars == <<messages, isTyping, isStreaming, error, abortController, storage>>

viewVars == <<accumulatedContent, assistantId, atAbort>>

utilVars == <<cache, lastSet, ret, models, contextsStore, apiRequest>>

vars == <<svcVars, storeVars, viewVars, now, clears, utilVars>>

(***************************************************************************)
(* Constants of the program.                                               *)
(***************************************************************************)
MAX_MESSAGES_PER_SESSION == 1000

DEFAULT_WELCOME_MESSAGE == <<"Welcome", "to", "Yokai", "Chat!">>

LMSTUDIO_CONNECTION == <<"Error", "connecting", "to", "LM", "Studio">>

NETWORK_ERROR == <<"Network", "error", "occurred">>

STORAGE_KEYS == {"MESSAGES", "CONTEXTS", "ACTIVE_CONTEXTS", "CURRENT_MODEL", "LMSTUDIO_BASE_URL"}

(***************************************************************************)
(* Messages store.  A message id is a JavaScript number: ms is its integer *)
(* part and frac stands for its fraction (0 for an integer).  origin is    *)
(* not a field of the program's Message: it records which call created the *)
(* message, so that properties can name "the placeholder of request r".    *)
(***************************************************************************)
IntId(n) == [ms |-> n, frac |-> 0]

Message(id, role, content, t, req) ==
    [id |-> id, role |-> role, content |-> content, timestamp |-> t, origin |-> req]

WelcomeMessage(id, t) == Message(id, "assistant", DEFAULT_WELCOME_MESSAGE, t, 0)

\* timestamp of a Message that has none (timestamp?: Date); a Date is its
\* milliseconds, which are positive
NoTimestamp == 0

(***************************************************************************)
(* JSON.  A scalar of a parsed document carries its typeof; a field that   *)
(* is missing is Undefined.  A stored string is a document: the text of a  *)
(* JSON value (an array with its items, or some other value), or text that *)
(* JSON.parse rejects.                                                     *)
(***************************************************************************)
NumV(n) == [t |-> "number", num |-> n, str |-> <<>>]

StrV(chars) == [t |-> "string", num |-> IntId(0), str |-> chars]

Undefined == [t |-> "undefined", num |-> IntId(0), str |-> <<>>]

\* Date.prototype.toJSON: the ISO string of the milliseconds
ToISOString(ms) == StrV(<<"ISO", ToString(ms)>>)

ArrayDoc(items) == [kind |-> "json", isArray |-> TRUE, items |-> items, text |-> <<>>]

\* the text of a JSON value that is not an array, such as {}
ObjectDoc == [kind |-> "json", isArray |-> FALSE, items |-> <<>>, text |-> <<"{}">>]

\* text stored as it is; JSON.parse rejects the texts used here
TextDoc(chars) == [kind |-> "text", isArray |-> FALSE, items |-> <<>>, text |-> chars]

\* JSON.stringify of a Message: the Date becomes a string, a missing
\* timestamp is left out
MessageToJSON(m) ==
    [object |-> TRUE, id |-> NumV(m.id), role |-> StrV(<<m.role>>),
     content |-> StrV(m.content),
     timestamp |-> IF m.timestamp = NoTimestamp THEN Undefined
                   ELSE ToISOString(m.timestamp)]

\* JSON.stringify(messages)
Stringify(msgs) == ArrayDoc([i \in 1..Len(msgs) |-> MessageToJSON(msgs[i])])

\* a stored value: <<>> when the key is absent, <<document>> otherwise
Absent == <<>>

\* StatePersistence.saveMessages through saveMessagesToStorage
SaveMessages(st) == [st EXCEPT !.stored = <<Stringify(st.messages)>>]

\* messages.value.slice(-count)
LastOf(msgs, count) ==
    IF Len(msgs) > count THEN SubSeq(msgs, Len(msgs) - count + 1, Len(msgs)) ELSE msgs

getLastMessages(msgs, count) == LastOf(msgs, count)

\* addMessage that keeps the first messages when over the limit
addMessageKeepingFirst(st, message) ==
    LET newMessages == Append(st.messages, message) IN
    SaveMessages([st EXCEPT !.messages =
        IF Len(newMessages) > MAX_MESSAGES_PER_SESSION
        THEN SubSeq(newMessages, 1, MAX_MESSAGES_PER_SESSION)
        ELSE newMessages])

addMessage(st, message) ==
    LET newMessages == Append(st.messages, message) IN
    SaveMessages([st EXCEPT !.messages =
        IF Len(newMessages) > MAX_MESSAGES_PER_SESSION
        THEN LastOf(newMessages, MAX_MESSAGES_PER_SESSION)
        ELSE newMessages])

\* messages.value.findIndex((m) => m.id === id), 0 for -1
FindIndex(msgs, id) ==
    IF \E i \in 1..Len(msgs) : msgs[i].id = id
    THEN CHOOSE i \in 1..Len(msgs) : msgs[i].id = id /\ \A j \in 1..(i - 1) : msgs[j].id # id
    ELSE 0

\* updateMessage(id, {content})
\* updateMessage that leaves storage as it was
updateMessageUnsaved(st, id, content) ==
    LET messageIndex == FindIndex(st.messages, id) IN
    IF messageIndex # 0
    THEN [st EXCEPT !.messages[messageIndex].content = content]
    ELSE st

updateMessage(st, id, content) ==
    LET messageIndex == FindIndex(st.messages, id) IN
    IF messageIndex # 0
    THEN SaveMessages([st EXCEPT !.messages[messageIndex].content = content])
    ELSE st

removeMessage(st, id) ==
    LET index == FindIndex(st.messages, id) IN
    IF index # 0
    THEN SaveMessages([st EXCEPT !.messages =
             SubSeq(st.messages, 1, index - 1)
                 \o SubSeq(st.messages, index + 1, Len(st.messages))])
    ELSE st

clearMessages(st, t) ==
    SaveMessages([st EXCEPT !.messages = <<WelcomeMessage(IntId(t), t)>>])

createUserMessage(st, content, t, r) ==
    addMessage(st, Message(IntId(t), "user", content, t, r))

createAssistantMessage(st, t, r) ==
    addMessage(st, Message(IntId(t), "assistant", <<>>, t, r))

Store == [messages |-> messages, stored |-> storage["MESSAGES"]]

SetStore(st) ==
    /\ messages' = st.messages
    /\ storage' = [storage EXCEPT !["MESSAGES"] = st.stored]

(***************************************************************************)
(* RequestCache.  The Map is a sequence of entries in insertion order; an  *)
(* optional argument is <<>> when undefined and <<n>> when given.  The     *)
(* cache under test is built with maxSize MaxSize and the default TTL.     *)
(***************************************************************************)
\* config.maxSize of the cache under test, in bytes
MaxSize == 10
\* milliseconds the cache's clock may advance
MaxCacheTicks == 2
\* config.defaultTTL, 5 * 60 * 1000
DefaultTTL == 300000

Urls == {"/models", "/contexts"}

CacheData == {<<"x">>, <<"m", "o", "d", "e", "l", "s">>}

TtlArgs == {<<>>, <<0>>, <<1>>}

\* `${method}:${url}:${body}:${headers}` without options
generateKey(url) == <<"GET", ":", url, ":", ":">>

\* JSON.stringify of a string without characters to escape
JsonString(data) == <<"\"">> \o data \o <<"\"">>

\* new Blob([JSON.stringify(data)]).size, one byte per character
calculateSize(data) == Len(JsonString(data))

RECURSIVE SumSizes(_)
SumSizes(entries) ==
    IF entries = <<>> THEN 0 ELSE Head(entries).size + SumSizes(Tail(entries))

getCurrentSize(c) == SumSizes(c)

\* Map.get: the position of the key, 0 when it has none
MapIndex(c, key) ==
    IF \E i \in 1..Len(c) : c[i].key = key
    THEN CHOOSE i \in 1..Len(c) : c[i].key = key
    ELSE 0

\* Map.delete
MapDelete(c, key) == SelectSeq(c, LAMBDA e : e.key # key)

\* Map.set: an existing key keeps its place, a new one goes last
MapSet(c, e) ==
    IF MapIndex(c, e.key) # 0 THEN [c EXCEPT ![MapIndex(c, e.key)] = e] ELSE Append(c, e)

\* Array.prototype.sort by timestamp, stable
RECURSIVE SortByTimestamp(_)
SortByTimestamp(es) ==
    IF es = <<>> THEN <<>>
    ELSE LET rest == SortByTimestamp(Tail(es))
             before == SelectSeq(rest, LAMBDA e : e.timestamp < Head(es).timestamp)
             after == SelectSeq(rest, LAMBDA e : e.timestamp >= Head(es).timestamp)
         IN  before \o <<Head(es)>> \o after

\* the quarter rounded down
QuarterRoundedDown(n) == n \div 4

\* Math.ceil(n * 0.25)
Quarter(n) == (n + 3) \div 4

\* the keys evictOldest deletes
Evicted(c) ==
    LET entries == SortByTimestamp(c) IN
    {entries[i].key : i \in 1..Quarter(Len(entries))}

evictOldest(c) == SelectSeq(c, LAMBDA e : e.key \notin Evicted(c))

\* RequestCache.set(url, data, undefined, ttl) at time t
cacheSet(c, url, data, ttl, t) ==
    LET size == calculateSize(data)
        room == IF getCurrentSize(c) + size > MaxSize THEN evictOldest(c) ELSE c
        entry == [key |-> generateKey(url), data |-> data, timestamp |-> t,
                  ttl |-> IF ttl = <<>> \/ ttl = <<0>> THEN DefaultTTL ELSE ttl[1],
                  size |-> size]
    IN  MapSet(room, entry)

\* Date.now() - entry.timestamp > entry.ttl
Expired(e, t) == t - e.timestamp > e.ttl

\* RequestCache.get: the result (<<>> for null) and the Map afterwards
cacheGet(c, url, t) ==
    LET key == generateKey(url)
        i == MapIndex(c, key)
    IN  IF i = 0 THEN [value |-> <<>>, cache |-> c]
        ELSE IF Expired(c[i], t) THEN [value |-> <<>>, cache |-> MapDelete(c, key)]
        ELSE [value |-> <<c[i].data>>, cache |-> c]

\* RequestCache.has
cacheHas(c, url, t) ==
    LET r == cacheGet(c, url, t) IN [value |-> r.value # <<>>, cache |-> r.cache]

\* a cleanup that removes nothing
cleanupKeepingAll(c, t) == c

\* RequestCache.cleanup
cleanup(c, t) == SelectSeq(c, LAMBDA e : ~Expired(e, t))

UrlOf(key) == key[3]

CacheFrame ==
    UNCHANGED <<svcVars, storeVars, viewVars, clears, models, contextsStore, apiRequest>>

CacheSet ==
    \E url \in Urls, data \in CacheData, ttl \in TtlArgs :
        LET gone == IF getCurrentSize(cache) + calculateSize(data) > MaxSize
                    THEN {UrlOf(k) : k \in Evicted(cache)} ELSE {}
        IN  /\ cache' = cacheSet(cache, url, data, ttl, now)
            /\ lastSet' = [u \in Urls |->
                              IF u = url THEN <<[data |-> data, ttl |-> ttl, at |-> now]>>
                              ELSE IF u \in gone THEN <<>> ELSE lastSet[u]]
            /\ ret' = [op |-> "set", url |-> url, value |-> <<>>, at |-> now,
                       gone |-> gone]
            /\ UNCHANGED now /\ CacheFrame

CacheGet ==
    \E url \in Urls :
        /\ cache' = cacheGet(cache, url, now).cache
        /\ ret' = [op |-> "get", url |-> url, value |-> cacheGet(cache, url, now).value,
                   at |-> now]
        /\ UNCHANGED <<lastSet, now>> /\ CacheFrame

CacheHas ==
    \E url \in Urls :
        /\ cache' = cacheHas(cache, url, now).cache
        /\ ret' = [op |-> "has", url |-> url, value |-> <<>>, at |-> now,
                   found |-> cacheHas(cache, url, now).value]
        /\ UNCHANGED <<lastSet, now>> /\ CacheFrame

CacheDelete ==
    \E url \in Urls :
        /\ cache' = MapDelete(cache, generateKey(url))
        /\ lastSet' = [lastSet EXCEPT ![url] = <<>>]
        /\ ret' = [op |-> "delete", url |-> url, value |-> <<>>, at |-> now,
                   found |-> MapIndex(cache, generateKey(url)) # 0]
        /\ UNCHANGED now /\ CacheFrame

CacheClear ==
    /\ cache # <<>>
    /\ cache' = <<>>
    /\ lastSet' = [u \in Urls |-> <<>>]
    /\ ret' = [op |-> "clear", url |-> "", value |-> <<>>, at |-> now]
    /\ UNCHANGED now /\ CacheFrame

\* the cleanup timer fires
CacheCleanup ==
    /\ cleanup(cache, now) # cache
    /\ cache' = cleanup(cache, now)
    /\ UNCHANGED <<lastSet, ret, now>> /\ CacheFrame

CacheTick ==
    /\ now < ClockStart + MaxCacheTicks
    /\ now' = now + 1
    /\ UNCHANGED <<cache, lastSet, ret>> /\ CacheFrame

(***************************************************************************)
(* The models store.  A model name is a sequence of characters.            *)
(***************************************************************************)
\* a response of the models endpoint never looked at
NoModelsResponse ==
    [kind |-> "none", status |-> 0, json |-> FALSE, body |-> "none", ids |-> <<>>]

\* useModelsStore after construction, with what has been called on it: op is
\* the last call and arg its argument, stage the await the load in flight
\* is at, inFlight the requests issued and not answered, answer what the last
\* load that settled met, rejected whether its promise rejected, saved the
\* argument of the last setCurrentModel, asked the base URL at the last call
\* of loadAvailableModels, requestUrl the base URL the last request went to,
\* loadedFor the base URL of the load that last assigned availableModels
InitModels ==
    [currentModel |-> <<>>, availableModels |-> <<>>, isLoadingModels |-> FALSE,
     lmStudioBaseUrl |-> <<>>,
     op |-> "none", arg |-> <<>>, stage |-> "idle", inFlight |-> 0,
     answer |-> NoModelsResponse, rejected |-> FALSE, saved |-> <<>>,
     asked |-> <<>>, requestUrl |-> <<>>, loadedFor |-> <<>>]

\* useContextsStore after construction, with the last call on it: op, its
\* argument arg, and the lists and the stored document before it
InitContexts ==
    [savedContexts |-> <<>>, selectedContextIds |-> <<>>, activeContextIds |-> <<>>,
     op |-> "none", arg |-> <<>>,
     before |-> [savedContexts |-> <<>>, selectedContextIds |-> <<>>, stored |-> <<>>]]

\* no error thrown
NoError == [name |-> "", message |-> <<>>]

\* this.config.timeout || 30000
DefaultTimeout == 30000

\* milliseconds a makeRequest call is followed for
MaxElapsed == 3

\* a BaseApiService before its makeRequest call: stage is where the call
\* stands, callerAborted and timeoutAborted the aborted flags of the caller's
\* controller and of the timeout interceptor's, signal the controller whose
\* signal fetch was given, timeoutMs and elapsed the timer, error what the
\* call rejected with
InitRequest ==
    [stage |-> "idle", dev |-> FALSE, callerAborted |-> FALSE,
     timeoutAborted |-> FALSE, signal |-> "none", timeoutMs |-> 0, elapsed |-> 0,
     error |-> NoError]

\* new RequestCache(): an empty Map; no utility call made yet
InitUtil ==
    /\ cache = <<>>
    /\ lastSet = [u \in Urls |-> <<>>]
    /\ ret = [op |-> "none", url |-> "", value |-> <<>>, at |-> 0]
    /\ models = InitModels
    /\ contextsStore = InitContexts
    /\ apiRequest = InitRequest

(***************************************************************************)
(* Validation of parsed documents.  The documents used here carry no       *)
(* context field on a message and no language field set to a value outside *)
(* PROGRAMMING_LANGUAGES.                                                  *)
(***************************************************************************)
MessageRoles == {<<"user">>, <<"assistant">>, <<"developer">>}

CONTEXT_TYPES == {<<"code">>, <<"file">>, <<"text">>}

isMessage(o) ==
    /\ o.object
    /\ o.id.t = "number"
    /\ o.role.t = "string"
    /\ o.role.str \in MessageRoles
    /\ o.content.t = "string"
    /\ (o.timestamp.t = "undefined" \/ o.timestamp.t = "Date")

isContextItem(o) ==
    /\ o.object
    /\ o.id.t = "string"
    /\ o.type.t = "string"
    /\ o.type.str \in CONTEXT_TYPES
    /\ o.title.t = "string"
    /\ o.content.t = "string"
    /\ o.language.t = "undefined"

IsString(o) == o.t = "string"

\* the result of a call that may throw
Threw == [threw |-> TRUE, items |-> <<>>]

Returned(items) == [threw |-> FALSE, items |-> items]

validateMessagesArray(isArray, items) ==
    IF ~isArray THEN Threw
    ELSE IF \A i \in 1..Len(items) : isMessage(items[i]) THEN Returned(items) ELSE Threw

validateContextsArray(isArray, items) ==
    IF ~isArray THEN Threw
    ELSE IF \A i \in 1..Len(items) : isContextItem(items[i]) THEN Returned(items) ELSE Threw

\* null is <<>>, a value v is <<v>>
Null == <<>>

\* JSON.parse throws a SyntaxError on the document
ParseThrows(doc) == doc.kind # "json"

safeParseMessages(doc) ==
    IF ParseThrows(doc) THEN Null
    ELSE IF doc.isArray
         THEN LET v == validateMessagesArray(TRUE, doc.items) IN
              IF v.threw THEN Null ELSE <<v.items>>
         ELSE Null

safeParseContexts(doc) ==
    IF ParseThrows(doc) THEN Null
    ELSE IF doc.isArray
         THEN LET v == validateContextsArray(TRUE, doc.items) IN
              IF v.threw THEN Null ELSE <<v.items>>
         ELSE Null

(***************************************************************************)
(* StatePersistence over localStorage.  A load returns its value and the   *)
(* storage it leaves behind.                                               *)
(***************************************************************************)
\* !stored: no item under the key, or the empty string
Falsy(stored) == stored = Absent \/ stored = <<TextDoc(<<>>)>>

RemoveItem(sto, key) == [sto EXCEPT ![key] = Absent]

SetItem(sto, key, doc) == [sto EXCEPT ![key] = <<doc>>]

\* loadMessages that clears the whole storage on invalid data
loadMessagesClearingAll(sto) ==
    LET stored == sto["MESSAGES"] IN
    IF Falsy(stored) THEN [value |-> <<>>, storage |-> sto]
    ELSE LET parsed == safeParseMessages(stored[1]) IN
         IF parsed = Null
         THEN [value |-> <<>>, storage |-> [k \in STORAGE_KEYS |-> Absent]]
         ELSE [value |-> parsed[1], storage |-> sto]

loadMessages(sto) ==
    LET stored == sto["MESSAGES"] IN
    IF Falsy(stored) THEN [value |-> <<>>, storage |-> sto]
    ELSE LET parsed == safeParseMessages(stored[1]) IN
         IF parsed = Null
         THEN [value |-> <<>>, storage |-> RemoveItem(sto, "MESSAGES")]
         ELSE [value |-> parsed[1], storage |-> sto]

loadContexts(sto) ==
    LET stored == sto["CONTEXTS"] IN
    IF Falsy(stored) THEN [value |-> <<>>, storage |-> sto]
    ELSE LET parsed == safeParseContexts(stored[1]) IN
         IF parsed = Null
         THEN [value |-> <<>>, storage |-> RemoveItem(sto, "CONTEXTS")]
         ELSE [value |-> parsed[1], storage |-> sto]

loadActiveContexts(sto) ==
    LET stored == sto["ACTIVE_CONTEXTS"] IN
    IF Falsy(stored) THEN [value |-> <<>>, storage |-> sto]
    ELSE IF ParseThrows(stored[1])
         THEN [value |-> <<>>, storage |-> sto]   \* JSON.parse throws: the catch block
    ELSE IF ~stored[1].isArray
            \/ ~(\A i \in 1..Len(stored[1].items) : IsString(stored[1].items[i]))
         THEN [value |-> <<>>, storage |-> RemoveItem(sto, "ACTIVE_CONTEXTS")]
    ELSE [value |-> stored[1].items, storage |-> sto]

\* stored || null: the stored string itself
loadCurrentModel(sto) ==
    [value |-> IF Falsy(sto["CURRENT_MODEL"]) THEN Null ELSE sto["CURRENT_MODEL"],
     storage |-> sto]

loadLMStudioBaseUrl(sto) ==
    [value |-> IF Falsy(sto["LMSTUDIO_BASE_URL"]) THEN Null ELSE sto["LMSTUDIO_BASE_URL"],
     storage |-> sto]

Load(key, sto) ==
    CASE key = "MESSAGES" -> loadMessages(sto)
      [] key = "CONTEXTS" -> loadContexts(sto)
      [] key = "ACTIVE_CONTEXTS" -> loadActiveContexts(sto)
      [] key = "CURRENT_MODEL" -> loadCurrentModel(sto)
      [] OTHER -> loadLMStudioBaseUrl(sto)

\* what every load returns from a storage
LoadAll(sto) == [k \in STORAGE_KEYS |-> Load(k, sto).value]

\* JSON.stringify of a ContextItem without language
ContextToJSON(c) ==
    [object |-> TRUE, id |-> StrV(c.id), type |-> StrV(c.type), title |-> StrV(c.title),
     content |-> StrV(c.content), language |-> Undefined]

saveMessages(sto, msgs) == SetItem(sto, "MESSAGES", Stringify(msgs))

saveContexts(sto, ctxs) ==
    SetItem(sto, "CONTEXTS", ArrayDoc([i \in 1..Len(ctxs) |-> ContextToJSON(ctxs[i])]))

saveActiveContexts(sto, ids) ==
    SetItem(sto, "ACTIVE_CONTEXTS", ArrayDoc([i \in 1..Len(ids) |-> StrV(ids[i])]))

\* the string is stored as it is
saveCurrentModel(sto, model) == SetItem(sto, "CURRENT_MODEL", model)

saveLMStudioBaseUrl(sto, url) == SetItem(sto, "LMSTUDIO_BASE_URL", url)

clearAll(sto) == [k \in STORAGE_KEYS |-> Absent]

\* a field of a parsed snapshot that holds an array, or something else
ArrField(truthy, isArray, items) == [truthy |-> truthy, isArray |-> isArray, items |-> items]

\* a field of a parsed snapshot that holds a string, or something else
StrField(truthy, isString, text) == [truthy |-> truthy, isString |-> isString, text |-> text]

NoField == ArrField(FALSE, FALSE, <<>>)

NoString == StrField(FALSE, FALSE, TextDoc(<<>>))

\* string | null as a field of the exported state
StringOrNull(v) == IF v = Null THEN NoString ELSE StrField(TRUE, TRUE, v[1])

\* exportState: the exported state as JSON.parse gives it back, and the
\* storage the loads leave behind
exportState(sto) ==
    LET m == loadMessages(sto)
        c == loadContexts(m.storage)
        a == loadActiveContexts(c.storage)
        cm == loadCurrentModel(a.storage)
        url == loadLMStudioBaseUrl(cm.storage)
    IN  [value |-> [parses |-> TRUE, version |-> TRUE, timestamp |-> TRUE,
                    messages |-> ArrField(TRUE, TRUE, m.value),
                    contexts |-> ArrField(TRUE, TRUE, c.value),
                    activeContexts |-> ArrField(TRUE, TRUE, a.value),
                    currentModel |-> StringOrNull(cm.value),
                    lmStudioBaseUrl |-> StringOrNull(url.value)],
         storage |-> url.storage]

\* importState that restores the messages and nothing else
importStateMessagesOnly(sto, state) ==
    IF ~state.parses \/ ~state.version \/ ~state.timestamp
    THEN [threw |-> TRUE, storage |-> sto]
    ELSE LET vm == validateMessagesArray(state.messages.isArray, state.messages.items) IN
         IF ~state.messages.truthy THEN [threw |-> FALSE, storage |-> sto]
         ELSE IF vm.threw THEN [threw |-> TRUE, storage |-> sto]
         ELSE [threw |-> FALSE, storage |-> SetItem(sto, "MESSAGES", ArrayDoc(vm.items))]

\* importState(json), state being JSON.parse(json): whether it threw, and
\* the storage it leaves behind
importState(sto, state) ==
    IF ~state.parses \/ ~state.version \/ ~state.timestamp
    THEN [threw |-> TRUE, storage |-> sto]
    ELSE
    LET vm == validateMessagesArray(state.messages.isArray, state.messages.items)
        s1 == IF state.messages.truthy
              THEN SetItem(sto, "MESSAGES", ArrayDoc(vm.items)) ELSE sto
        vc == validateContextsArray(state.contexts.isArray, state.contexts.items)
        s2 == IF state.contexts.truthy
              THEN SetItem(s1, "CONTEXTS", ArrayDoc(vc.items)) ELSE s1
        ac == state.activeContexts
        s3 == IF ac.truthy /\ ac.isArray /\ \A i \in 1..Len(ac.items) : IsString(ac.items[i])
              THEN SetItem(s2, "ACTIVE_CONTEXTS", ArrayDoc(ac.items)) ELSE s2
        s4 == IF state.currentModel.truthy /\ state.currentModel.isString
              THEN saveCurrentModel(s3, state.currentModel.text) ELSE s3
        s5 == IF state.lmStudioBaseUrl.truthy /\ state.lmStudioBaseUrl.isString
              THEN saveLMStudioBaseUrl(s4, state.lmStudioBaseUrl.text) ELSE s4
    IN  IF state.messages.truthy /\ vm.threw THEN [threw |-> TRUE, storage |-> sto]
        ELSE IF state.contexts.truthy /\ vc.threw THEN [threw |-> TRUE, storage |-> s1]
        ELSE [threw |-> FALSE, storage |-> s5]

(***************************************************************************)
(* The values the persistence operations are exercised with.               *)
(***************************************************************************)
\* a message as the store creates it, and one without a timestamp
StoredMessage == Message(IntId(ClockStart), "assistant", <<"Hello">>, ClockStart, 0)

PlainMessage == Message(IntId(7), "user", <<"hi">>, NoTimestamp, 0)

MessageLists == {<<>>, <<PlainMessage>>, <<PlainMessage, StoredMessage>>}

SavedContext == [id |-> <<"c1">>, type |-> <<"text">>, title |-> <<"notes">>,
                 content |-> <<"be", "brief">>]

ContextLists == {<<>>, <<SavedContext>>}

ContextIdLists == {<<>>, <<<<"c1">>>>}

ModelNames == {TextDoc(<<>>), TextDoc(<<"llama">>)}

BaseUrls == {TextDoc(<<"http://localhost:1234">>)}

Garbage == TextDoc(<<"{", "o", "o", "p", "s">>)

\* a message object whose id is a string
BadMessage ==
    [object |-> TRUE, id |-> StrV(<<"7">>), role |-> StrV(<<"user">>),
     content |-> StrV(<<"hi">>), timestamp |-> Undefined]

\* a context object of a type that CONTEXT_TYPES does not list
BadContext ==
    [object |-> TRUE, id |-> StrV(<<"c1">>), type |-> StrV(<<"video">>),
     title |-> StrV(<<"notes">>), content |-> StrV(<<"be", "brief">>),
     language |-> Undefined]

\* stored values that do not parse or do not pass the field's validator
CorruptDocs(key) ==
    CASE key = "MESSAGES" -> {Garbage, ArrayDoc(<<BadMessage>>)}
      [] key = "CONTEXTS" -> {Garbage, ArrayDoc(<<BadContext>>)}
      [] key = "ACTIVE_CONTEXTS" -> {Garbage, ObjectDoc, ArrayDoc(<<NumV(IntId(7))>>)}
      [] OTHER -> {}

Corrupted(sto, key) == sto[key] # Absent /\ sto[key][1] \in CorruptDocs(key)

\* every key is absent or holds what a save of a valid value wrote
SavedValid(sto) ==
    /\ \/ sto["MESSAGES"] = Absent
       \/ \E v \in MessageLists : sto = saveMessages(sto, v)
    /\ \/ sto["CONTEXTS"] = Absent
       \/ \E v \in ContextLists : sto = saveContexts(sto, v)
    /\ \/ sto["ACTIVE_CONTEXTS"] = Absent
       \/ \E v \in ContextIdLists : sto = saveActiveContexts(sto, v)
    /\ \/ sto["CURRENT_MODEL"] = Absent
       \/ \E v \in ModelNames : sto = saveCurrentModel(sto, v)
    /\ \/ sto["LMSTUDIO_BASE_URL"] = Absent
       \/ \E v \in BaseUrls : sto = saveLMStudioBaseUrl(sto, v)

\* a snapshot in which every field is valid
GoodSnapshot ==
    [parses |-> TRUE, version |-> TRUE, timestamp |-> TRUE,
     messages |-> ArrField(TRUE, TRUE, <<MessageToJSON(PlainMessage)>>),
     contexts |-> ArrField(TRUE, TRUE, <<ContextToJSON(SavedContext)>>),
     activeContexts |-> ArrField(TRUE, TRUE, <<StrV(<<"c1">>)>>),
     currentModel |-> StrField(TRUE, TRUE, TextDoc(<<"llama">>)),
     lmStudioBaseUrl |-> StrField(TRUE, TRUE, TextDoc(<<"http://localhost:1234">>))]

\* the documents importState is given: the good one, and it with one part
\* missing or invalid
Snapshots ==
    {GoodSnapshot,
     [GoodSnapshot EXCEPT !.parses = FALSE],
     [GoodSnapshot EXCEPT !.version = FALSE],
     [GoodSnapshot EXCEPT !.messages = NoField],
     [GoodSnapshot EXCEPT !.messages = ArrField(TRUE, TRUE, <<BadMessage>>)],
     [GoodSnapshot EXCEPT !.messages = ArrField(TRUE, FALSE, <<>>)],
     [GoodSnapshot EXCEPT !.contexts = NoField],
     [GoodSnapshot EXCEPT !.contexts = ArrField(TRUE, TRUE, <<BadContext>>)],
     [GoodSnapshot EXCEPT !.activeContexts = ArrField(TRUE, TRUE, <<NumV(IntId(7))>>)],
     [GoodSnapshot EXCEPT !.currentModel = StrField(TRUE, FALSE, TextDoc(<<>>))],
     [GoodSnapshot EXCEPT !.lmStudioBaseUrl = NoString]}

PersistFrame ==
    UNCHANGED <<svcVars, messages, isTyping, isStreaming, error, abortController,
                viewVars, now, clears, cache, lastSet, models, contextsStore,
                apiRequest>>

\* what ret holds after a persistence call
Called(op, key, value) ==
    [op |-> op, key |-> key, value |-> value, threw |-> FALSE, before |-> storage,
     loads |-> LoadAll(storage), clean |-> SavedValid(storage)]

PersistMessages ==
    \E v \in MessageLists :
        /\ storage' = saveMessages(storage, v)
        /\ ret' = Called("save", "MESSAGES", <<>>)
        /\ PersistFrame

PersistContexts ==
    \E v \in ContextLists :
        /\ storage' = saveContexts(storage, v)
        /\ ret' = Called("save", "CONTEXTS", <<>>)
        /\ PersistFrame

PersistActiveContexts ==
    \E v \in ContextIdLists :
        /\ storage' = saveActiveContexts(storage, v)
        /\ ret' = Called("save", "ACTIVE_CONTEXTS", <<>>)
        /\ PersistFrame

PersistCurrentModel ==
    \E v \in ModelNames :
        /\ storage' = saveCurrentModel(storage, v)
        /\ ret' = Called("save", "CURRENT_MODEL", <<>>)
        /\ PersistFrame

PersistBaseUrl ==
    \E v \in BaseUrls :
        /\ storage' = saveLMStudioBaseUrl(storage, v)
        /\ ret' = Called("save", "LMSTUDIO_BASE_URL", <<>>)
        /\ PersistFrame

\* something else leaves a value under a key that the field cannot use
Corrupt ==
    \E key \in STORAGE_KEYS : \E doc \in CorruptDocs(key) :
        /\ storage' = SetItem(storage, key, doc)
        /\ ret' = Called("corrupt", key, <<>>)
        /\ PersistFrame

LoadField ==
    \E key \in STORAGE_KEYS :
        /\ storage' = Load(key, storage).storage
        /\ ret' = Called("load", key, Load(key, storage).value)
        /\ PersistFrame

ClearAll ==
    /\ storage' = clearAll(storage)
    /\ ret' = Called("clear", "", <<>>)
    /\ PersistFrame

\* validateStorageData(key, parsed) for a document that JSON.parse accepted:
\* an array or an object here, so never the string the model and base URL
\* cases ask for; the messages key has no case and takes the default
validateStorageData(key, doc) ==
    CASE key = "CONTEXTS" ->
            doc.isArray /\ \A i \in 1..Len(doc.items) : isContextItem(doc.items[i])
      [] key = "ACTIVE_CONTEXTS" ->
            doc.isArray /\ \A i \in 1..Len(doc.items) : IsString(doc.items[i])
      [] key = "CURRENT_MODEL" -> FALSE
      [] key = "LMSTUDIO_BASE_URL" -> FALSE
      [] OTHER -> FALSE

\* the issue checkStorageHealth pushes for a key, if any
HealthIssues(sto, key) ==
    IF Falsy(sto[key]) THEN {}
    ELSE IF ParseThrows(sto[key][1]) THEN {<<"Corrupted data", key>>}
    ELSE IF ~validateStorageData(key, sto[key][1]) THEN {<<"Invalid data format", key>>}
    ELSE {}

\* checkStorageHealth: the probe write, then every key of STORAGE_KEYS
checkStorageHealth(sto, available) ==
    LET issues == (IF available THEN {} ELSE {<<"localStorage is not available", "">>})
                  \cup UNION {HealthIssues(sto, key) : key \in STORAGE_KEYS}
    IN  [healthy |-> issues = {}, issues |-> issues, available |-> available]

CheckStorageHealth ==
    \E available \in BOOLEAN :
        /\ ret' = Called("health", "", checkStorageHealth(storage, available))
        /\ UNCHANGED storage
        /\ PersistFrame

ExportState ==
    /\ storage' = exportState(storage).storage
    /\ ret' = Called("export", "", exportState(storage).value)
    /\ PersistFrame

ImportState ==
    \E state \in Snapshots :
        /\ storage' = importState(storage, state).storage
        /\ ret' = [Called("import", "", state) EXCEPT
                       !.threw = importState(storage, state).threw]
        /\ PersistFrame

\* the exported document is imported into a fresh store
ImportExported ==
    /\ ret.op = "export"
    /\ storage' = importState(clearAll(storage), ret.value).storage
    /\ ret' = [ret EXCEPT !.op = "restore"]
    /\ PersistFrame

(***************************************************************************)
(* LMStudioService.sendMessageStream and processStream.                    *)
(***************************************************************************)
Statuses == {200, 500}

ResponseOk(st) == st >= 200 /\ st <= 299

StatusText(st) == IF st = 200 THEN "200" ELSE "500"

\* response.text() of an error response
ErrorBodies ==
    {<<"Internal", "Server", "Error">>, <<"Failed", "to", "fetch", "upstream">>}

\* the message of the TypeError a failed fetch rejects with, by browser
FetchFailures ==
    {<<"Failed", "to", "fetch">>,
     <<"NetworkError", "when", "attempting", "to", "fetch", "resource.">>}

\* the message of the TypeError a broken body stream rejects a read with
StreamFailures == {<<"network", "error">>}

Err(name, message) == [name |-> name, message |-> message]

AbortError == Err("AbortError", <<"The", "operation", "was", "aborted.">>)

\* new Error(`HTTP ${response.status}: ${errorText}`)
HttpError(st, text) == Err("Error", <<"HTTP", StatusText(st), ":">> \o text)

BodyNullError == Err("Error", <<"Response", "body", "is", "null">>)

\* LMStudioService.handleError
handleError(e) ==
    IF Includes(e.message, <<"Failed", "to", "fetch">>) THEN LMSTUDIO_CONNECTION
    ELSE IF Includes(e.message, <<"NetworkError">>) THEN NETWORK_ERROR
    ELSE e.message

\* IsAbortError that looks for the name in the message
IsAbortErrorByMessage(e) == Includes(e.message, <<"AbortError">>)

\* error instanceof Error && error.name === 'AbortError'
IsAbortError(e) == e.name = "AbortError"

Step(r, newpc, newcalls, message) ==
    /\ pc' = [pc EXCEPT ![r] = newpc]
    /\ calls' = [calls EXCEPT ![r] = @ \o newcalls]
    /\ thrown' = [thrown EXCEPT ![r] = message]

\* the catch block of sendMessageStream
Catch(r, newcalls, e) ==
    IF IsAbortError(e)
    THEN Step(r, "resolved", newcalls, <<>>)
    ELSE LET errorMessage == handleError(e) IN
         Step(r, "rejected", newcalls \o <<OnError(errorMessage)>>, errorMessage)

\* the head of the while loop of processStream: break when aborted, else read
LoopTop(r) == IF aborted[r] THEN "resolved" ELSE "read"

InFlight(r) == pc[r] \in {"fetch", "text", "read"}

Settled(r) == pc[r] \in {"resolved", "rejected"}

\* sendMessageStream is called: the request is built and fetch is awaited
Call(r) ==
    /\ pc[r] = "idle"
    /\ pc' = [pc EXCEPT ![r] = "fetch"]
    /\ UNCHANGED <<aborted, server, status, pos, calls, thrown, abortedAt, sent>>

\* fetch rejects because the signal is aborted
FetchAborted(r) ==
    /\ pc[r] = "fetch" /\ aborted[r]
    /\ Catch(r, <<>>, AbortError)
    /\ UNCHANGED <<aborted, server, status, pos, abortedAt, sent>>

\* makeRequest that answers a rejected fetch with a second fetch
makeRequestFetchingAgain(e) == [again |-> TRUE, error |-> e]

\* makeRequest when its fetch rejects: catch (error) { throw error }
makeRequest(e) == [again |-> FALSE, error |-> e]

\* fetch rejects because the server cannot be reached
FetchFailed(r) ==
    /\ pc[r] = "fetch" /\ ~aborted[r]
    /\ \E m \in FetchFailures :
          LET o == makeRequest(Err("TypeError", m)) IN
          IF o.again THEN Step(r, "fetch again", <<>>, <<>>) ELSE Catch(r, <<>>, o.error)
    /\ UNCHANGED <<aborted, server, status, pos, abortedAt, sent>>

NoServer == [chunks |-> <<>>, cut |-> NoCut]

\* fetch resolves with the response headers; a 2xx response with a body is
\* one of the streams in servers
FetchResponded(r, servers) ==
    /\ pc[r] = "fetch" /\ ~aborted[r]
    /\ \E st \in Statuses, hasBody \in BOOLEAN :
          /\ status' = [status EXCEPT ![r] = st]
          /\ IF ~ResponseOk(st)
             THEN Step(r, "text", <<>>, <<>>) /\ UNCHANGED server
             ELSE IF ~hasBody
             THEN Catch(r, <<>>, BodyNullError) /\ UNCHANGED server
             ELSE /\ Step(r, LoopTop(r), <<>>, <<>>)
                  /\ \E srv \in servers : server' = [server EXCEPT ![r] = srv]
    /\ UNCHANGED <<aborted, pos, abortedAt, sent>>

\* response.text() of a non-2xx response resolves
TextRead(r) ==
    /\ pc[r] = "text" /\ ~aborted[r]
    /\ \E errorText \in ErrorBodies : Catch(r, <<>>, HttpError(status[r], errorText))
    /\ UNCHANGED <<aborted, server, status, pos, abortedAt, sent>>

\* response.text() rejects because the signal is aborted
TextAborted(r) ==
    /\ pc[r] = "text" /\ aborted[r]
    /\ Catch(r, <<>>, AbortError)
    /\ UNCHANGED <<aborted, server, status, pos, abortedAt, sent>>

\* reader.read() resolves with the next transport chunk
ReadChunk(r) ==
    /\ pc[r] = "read" /\ ~aborted[r]
    /\ pos[r] < Len(Wire(server[r]))
    /\ LET o == ProcessChunk(Wire(server[r])[pos[r] + 1]) IN
       Step(r, IF o.ret THEN "resolved" ELSE LoopTop(r), o.calls, <<>>)
    /\ pos' = [pos EXCEPT ![r] = @ + 1]
    /\ UNCHANGED <<aborted, server, status, abortedAt, sent>>

\* reader.read() resolves with done: the server closed the body
ReadDone(r) ==
    /\ pc[r] = "read" /\ ~aborted[r]
    /\ pos[r] = Len(Wire(server[r]))
    /\ Step(r, "resolved", <<>>, <<>>)
    /\ UNCHANGED <<aborted, server, status, pos, abortedAt, sent>>

\* reader.read() rejects because the connection broke
ReadFailed(r) ==
    /\ pc[r] = "read" /\ ~aborted[r]
    /\ \E m \in StreamFailures : Catch(r, <<>>, Err("TypeError", m))
    /\ UNCHANGED <<aborted, server, status, pos, abortedAt, sent>>

\* reader.read() rejects because the signal is aborted
ReadAborted(r) ==
    /\ pc[r] = "read" /\ aborted[r]
    /\ Catch(r, <<>>, AbortError)
    /\ UNCHANGED <<aborted, server, status, pos, abortedAt, sent>>

\* abortController.abort() on the controller of call r
Abort(r) ==
    /\ aborted' = [aborted EXCEPT ![r] = TRUE]
    /\ abortedAt' = [abortedAt EXCEPT ![r] = IF aborted[r] THEN @ ELSE pc[r]]

\* the messages array of the request body built by sendMessageStream
BuildRequest(message, chatHistory) ==
    [i \in 1..Len(chatHistory) |->
        [role |-> IF chatHistory[i].role = "developer" THEN "system" ELSE chatHistory[i].role,
         content |-> chatHistory[i].content]]
        \o <<[role |-> "user", content |-> message]>>

(***************************************************************************)
(* The decoder on its own: one sendMessageStream call with callbacks that  *)
(* only record their calls; the caller may abort the controller it passed. *)
(***************************************************************************)
InitService ==
    /\ pc = [r \in Req |-> IF r = 1 THEN "idle" ELSE "none"]
    /\ aborted = [r \in Req |-> FALSE]
    /\ server = [r \in Req |-> NoServer]
    /\ status = [r \in Req |-> 0]
    /\ pos = [r \in Req |-> 0]
    /\ calls = [r \in Req |-> <<>>]
    /\ thrown = [r \in Req |-> <<>>]
    /\ abortedAt = [r \in Req |-> "never"]
    /\ sent = [r \in Req |-> IF r = 1 THEN BuildRequest(<<"hi">>, <<>>) ELSE <<>>]

InitStore ==
    /\ messages = <<WelcomeMessage(IntId(1), ClockStart)>>
    /\ isTyping = FALSE
    /\ isStreaming = FALSE
    /\ error = <<>>
    /\ abortController = 0
    /\ storage = [k \in STORAGE_KEYS |-> Absent]
    /\ accumulatedContent = [r \in Req |-> <<>>]
    /\ assistantId = [r \in Req |-> IntId(0)]
    /\ atAbort = [r \in Req |-> -1]
    /\ now = ClockStart
    /\ clears = 0
    /\ InitUtil

InitStream == InitService /\ InitStore

CallerAbort ==
    /\ pc[1] \in {"idle", "fetch", "text", "read"}
    /\ ~aborted[1]
    /\ Abort(1)
    /\ UNCHANGED <<pc, server, status, pos, calls, thrown, sent>>

StreamServers == {[chunks |-> s, cut |-> NoCut] : s \in Scripts(MaxLines)}

\* the callbacks of a direct call touch nothing but the call record
Frame == UNCHANGED <<storeVars, viewVars, now, clears, utilVars>>

NextStream ==
    \/ Call(1) /\ Frame
    \/ FetchAborted(1) /\ Frame
    \/ FetchFailed(1) /\ Frame
    \/ FetchResponded(1, StreamServers) /\ Frame
    \/ TextRead(1) /\ Frame
    \/ TextAborted(1) /\ Frame
    \/ ReadChunk(1) /\ Frame
    \/ ReadDone(1) /\ Frame
    \/ ReadFailed(1) /\ Frame
    \/ ReadAborted(1) /\ Frame
    \/ CallerAbort /\ Frame

SpecStream == InitStream /\ [][NextStream]_vars

NextSplit ==
    \/ Call(1) /\ Frame
    \/ FetchAborted(1) /\ Frame
    \/ FetchFailed(1) /\ Frame
    \/ FetchResponded(1, SplitServers(MaxSplitLines)) /\ Frame
    \/ TextRead(1) /\ Frame
    \/ TextAborted(1) /\ Frame
    \/ ReadChunk(1) /\ Frame
    \/ ReadDone(1) /\ Frame
    \/ ReadFailed(1) /\ Frame
    \/ ReadAborted(1) /\ Frame
    \/ CallerAbort /\ Frame

SpecSplit == InitStream /\ [][NextSplit]_vars

(***************************************************************************)
(* What the server meant, read off the lines it sent (not off the bytes).  *)
(***************************************************************************)
\* the lines carried by the transport chunks call r has read so far
Delivered(r) == AllLines(SubSeq(server[r].chunks, 1, pos[r]))

Unsplit(r) == server[r].cut = NoCut

Terminal(l) == l.kind \in {"done", "error"}

\* the lines before the first terminator or error record
RECURSIVE Live(_)
Live(lines) ==
    IF lines = <<>> \/ Terminal(Head(lines)) THEN <<>>
    ELSE <<Head(lines)>> \o Live(Tail(lines))

\* the line that ends the stream, if one was sent
Ending(lines) ==
    IF Len(Live(lines)) < Len(lines) THEN lines[Len(Live(lines)) + 1].kind ELSE "open"

\* the content fragments of the lines, in the order sent
FragmentsOf(lines) ==
    LET ds == SelectSeq(lines, LAMBDA l : l.kind = "delta" /\ l.text # <<>>) IN
    [i \in 1..Len(ds) |-> ds[i].text]

ChunkCalls(cs) == SelectSeq(cs, LAMBDA c : c.kind = "chunk")

ErrorCalls(cs) == SelectSeq(cs, LAMBDA c : c.kind = "error")

\* the arguments of the onChunk calls, in call order
ChunkArgs(cs) == [i \in 1..Len(ChunkCalls(cs)) |-> ChunkCalls(cs)[i].arg]

\* content lines ended by the terminator
WellFormed(srv) ==
    LET ls == AllLines(srv.chunks) IN
    /\ ls # <<>>
    /\ ls[Len(ls)] = Done
    /\ \A i \in 1..(Len(ls) - 1) : ls[i].kind = "delta"

(***************************************************************************)
(* C1: for a well-formed stream whose chunks carry whole lines, the        *)
(* onChunk arguments in call order are the server's content fragments in   *)
(* the order sent, whatever the number of lines per chunk; when the call   *)
(* resolves without cancellation their concatenation is the whole reply.   *)
(***************************************************************************)
C1_DeltasInOrder ==
    \A r \in Req :
        (WellFormed(server[r]) /\ Unsplit(r)) =>
            /\ ChunkArgs(calls[r]) = FragmentsOf(Delivered(r))
            /\ (pc[r] = "resolved" /\ ~aborted[r]) =>
                   /\ Concat(ChunkArgs(calls[r])) = Concat(FragmentsOf(AllLines(server[r].chunks)))
                   /\ ErrorCalls(calls[r]) = <<>>

C1_Witness ==
    /\ pc[1] = "resolved" /\ ~aborted[1]
    /\ WellFormed(server[1])
    /\ server[1].chunks = <<<<Delta(<<"H", "e">>), Delta(<<"l", "l", "o">>), Done>>>>
    /\ Concat(ChunkArgs(calls[1])) = <<"H", "e", "l", "l", "o">>

(***************************************************************************)
(* C2: a data line split over two consecutive transport chunks gives the   *)
(* same onChunk / onError calls as the same line delivered whole.          *)
(***************************************************************************)
RECURSIVE RunChunks(_, _)
RunChunks(chunks, acc) ==
    IF chunks = <<>> THEN acc
    ELSE LET o == ProcessChunk(Head(chunks)) IN
         IF o.ret THEN acc \o o.calls ELSE RunChunks(Tail(chunks), acc \o o.calls)

\* the same bytes with the cut chunk delivered whole
WholeDelivery(srv) == Wire([srv EXCEPT !.cut = NoCut])

C2_SplitLineDecodedAsWhole ==
    \A r \in Req :
        (pc[r] = "resolved" /\ ~aborted[r]) =>
            calls[r] = RunChunks(WholeDelivery(server[r]), <<>>)

(***************************************************************************)
(* C4: a call whose controller is aborted - before the call, while the     *)
(* response headers, the error body or a stream chunk is awaited - never   *)
(* invokes onError and never rejects.                                      *)
(***************************************************************************)
C4_AbortIsSilent ==
    \A r \in Req :
        aborted[r] => (pc[r] # "rejected" /\ ErrorCalls(calls[r]) = <<>>)

C4_Witness ==
    /\ aborted[1] /\ abortedAt[1] = "read"
    /\ pc[1] = "resolved"
    /\ ChunkArgs(calls[1]) = <<<<"H", "e">>>>
    /\ pos[1] < Len(server[1].chunks)

(***************************************************************************)
(* C5: a non-2xx answer makes onError fire exactly once, with a failure    *)
(* that identifies the status, and onChunk never.                          *)
(***************************************************************************)
C5_StatusReported ==
    \A r \in Req :
        (status[r] # 0 /\ ~ResponseOk(status[r]) /\ Settled(r) /\ ~aborted[r]) =>
            /\ Len(calls[r]) = 1
            /\ calls[r][1].kind = "error"
            /\ Includes(calls[r][1].arg, <<StatusText(status[r])>>)

(***************************************************************************)
(* C6: a decoded error record makes onError fire exactly once for the      *)
(* whole request and ends the stream: the error call is the last call, the *)
(* lines after the record and the later chunks are not processed.          *)
(***************************************************************************)
\* reading stopped with the chunk that carries the ending line
StoppedAtEnding(r) ==
    /\ pc[r] = "resolved"
    /\ pos[r] >= 1
    /\ Ending(AllLines(SubSeq(server[r].chunks, 1, pos[r] - 1))) = "open"

C6_ErrorRecordEndsStream ==
    \A r \in Req :
        (Unsplit(r) /\ Ending(Delivered(r)) = "error") =>
            LET rec == Delivered(r)[Len(Live(Delivered(r))) + 1] IN
            /\ StoppedAtEnding(r)
            /\ calls[r] # <<>>
            /\ calls[r][Len(calls[r])] =
                   OnError(IF rec.text # <<>> THEN rec.text ELSE UnknownError)
            /\ Len(ErrorCalls(calls[r])) = 1
            /\ ChunkArgs(calls[r]) = FragmentsOf(Live(Delivered(r)))

C6_Witness ==
    /\ server[1].chunks =
           <<<<Delta(<<"H", "e">>), ErrorLine(<<"b", "u", "s", "y">>), Delta(<<"l", "l", "o">>)>>>>
    /\ pc[1] = "resolved"
    /\ calls[1] = <<OnChunk(<<"H", "e">>), OnError(<<"b", "u", "s", "y">>)>>

(***************************************************************************)
(* C7: once the terminator line is decoded no onChunk or onError call is   *)
(* made, whether further lines follow in the same chunk or in later ones.  *)
(***************************************************************************)
C7_NothingAfterDone ==
    \A r \in Req :
        (Unsplit(r) /\ Ending(Delivered(r)) = "done") =>
            /\ StoppedAtEnding(r)
            /\ ErrorCalls(calls[r]) = <<>>
            /\ ChunkArgs(calls[r]) = FragmentsOf(Live(Delivered(r)))

C7_Witness ==
    /\ server[1].chunks = <<<<Delta(<<"H", "e">>), Done, Delta(<<"l", "l", "o">>)>>>>
    /\ pc[1] = "resolved"
    /\ calls[1] = <<OnChunk(<<"H", "e">>)>>

(***************************************************************************)
(* C8: a data line whose payload does not parse is skipped: it causes no   *)
(* onError call and does not end the stream, and the well-formed lines     *)
(* after it still reach onChunk in order.                                  *)
(***************************************************************************)
C8_MalformedSkipped ==
    \A r \in Req :
        LET live == Live(Delivered(r)) IN
        (Unsplit(r) /\ \E i \in 1..Len(live) : live[i] = Malformed) =>
            /\ ChunkArgs(calls[r]) = FragmentsOf(live)
            /\ (Ending(Delivered(r)) = "open" /\ pc[r] # "rejected") =>
                   /\ ErrorCalls(calls[r]) = <<>>
                   /\ pc[r] = "resolved" => (aborted[r] \/ pos[r] = Len(server[r].chunks))

C8_Witness ==
    /\ server[1].chunks = <<<<Delta(<<"H", "e">>), Malformed>>, <<Delta(<<"l", "l", "o">>)>>>>
    /\ pc[1] = "read"
    /\ pos[1] = 2
    /\ calls[1] = <<OnChunk(<<"H", "e">>), OnChunk(<<"l", "l", "o">>)>>

(***************************************************************************)
(* The session: MessageInput, ChatView.handleSend and the messages store.  *)
(***************************************************************************)
UserTexts == {<<"hi">>}

\* `[${ctx.type.toUpperCase()}] ${ctx.title}\n\n${ctx.content}` of the active context
ContextText == <<"[TEXT]", "notes", "be", "brief">>

\* what the server may answer a session's request with
SessionServers ==
    {[chunks |-> <<<<Delta(<<"H", "e">>)>>, <<Delta(<<"l", "l", "o">>), Done>>>>, cut |-> NoCut],
     [chunks |-> <<<<ErrorLine(<<"b", "u", "s", "y">>)>>>>, cut |-> NoCut],
     [chunks |-> <<<<Delta(<<"H", "e">>)>>>>, cut |-> NoCut]}

\* isStreaming of the chat store facade: the value messagesStore.isStreaming
\* had when the facade was set up, a plain boolean that no action writes
ChatStoreIsStreaming == FALSE

\* the submit button of MessageInput is rendered (v-if="!isStreaming"); the
\* prop is bound to chatStore.isStreaming
SubmitButtonShown == ~ChatStoreIsStreaming

\* the text input stays in the form while streaming, and Enter in it submits
\* the form, whose handler does not look at isStreaming
EnterKeySubmits == TRUE

SendEnabled == SubmitButtonShown \/ EnterKeySubmits

\* Date.now() + Math.random() of the developer message of request r: the
\* fraction is taken to be fresh for every call
RandomId(t, r) == [ms |-> t, frac |-> r]

\* the callbacks handleSend passes, applied to the calls in order
RECURSIVE ApplyCallbacks(_, _, _)
ApplyCallbacks(v, cs, id) ==
    IF cs = <<>> THEN v
    ELSE LET c == Head(cs) IN
         IF c.kind = "chunk"
         THEN LET acc == v.acc \o c.arg IN
              ApplyCallbacks([v EXCEPT !.acc = acc,
                                       !.store = updateMessage(v.store, id, acc)],
                             Tail(cs), id)
         ELSE ApplyCallbacks([v EXCEPT !.error = <<c.arg>>], Tail(cs), id)

\* View that resets the flags after the try block instead of in a finally
ViewResetAfterTry(r) ==
    LET newcalls == SubSeq(calls'[r], Len(calls[r]) + 1, Len(calls'[r]))
        v0 == [store |-> Store, acc |-> accumulatedContent[r], error |-> error]
        v1 == ApplyCallbacks(v0, newcalls, assistantId[r])
        v2 == IF pc'[r] = "rejected"
              THEN [v1 EXCEPT !.store = updateMessage(v1.store, assistantId[r],
                                                      LMSTUDIO_CONNECTION),
                              !.error = <<thrown'[r]>>]
              ELSE v1
        settled == pc'[r] = "resolved"
    IN  /\ SetStore(v2.store)
        /\ error' = v2.error
        /\ accumulatedContent' = [accumulatedContent EXCEPT ![r] = v2.acc]
        /\ isTyping' = IF settled THEN FALSE ELSE isTyping
        /\ isStreaming' = IF settled THEN FALSE ELSE isStreaming
        /\ abortController' = IF settled THEN 0 ELSE abortController
        /\ UNCHANGED <<assistantId, atAbort, now, clears, utilVars>>

\* handleSend around a step of its sendMessageStream call: the callbacks the
\* step invoked, then, once the call settled, the catch and finally blocks
View(r) ==
    LET newcalls == SubSeq(calls'[r], Len(calls[r]) + 1, Len(calls'[r]))
        v0 == [store |-> Store, acc |-> accumulatedContent[r], error |-> error]
        v1 == ApplyCallbacks(v0, newcalls, assistantId[r])
        v2 == IF pc'[r] = "rejected"
              THEN [v1 EXCEPT !.store = updateMessage(v1.store, assistantId[r],
                                                      LMSTUDIO_CONNECTION),
                              !.error = <<thrown'[r]>>]
              ELSE v1
        settled == pc'[r] \in {"resolved", "rejected"}
    IN  /\ SetStore(v2.store)
        /\ error' = v2.error
        /\ accumulatedContent' = [accumulatedContent EXCEPT ![r] = v2.acc]
        /\ isTyping' = IF settled THEN FALSE ELSE isTyping
        /\ isStreaming' = IF settled THEN FALSE ELSE isStreaming
        /\ abortController' = IF settled THEN 0 ELSE abortController
        /\ UNCHANGED <<assistantId, atAbort, now, clears, utilVars>>

\* MessageInput emits send and ChatView.handleSend runs up to its await
HandleSend(r) ==
    /\ SendEnabled
    /\ pc[r] = "none"
    /\ \A q \in 1..(r - 1) : pc[q] # "none"
    /\ \E content \in UserTexts, withContext \in BOOLEAN, dt \in 0..1 :
          LET t == now + dt
              st1 == createUserMessage(Store, content, now, r)
              st2 == IF withContext
                     THEN addMessage(st1, Message(RandomId(now, r), "developer",
                                                  ContextText, now, r))
                     ELSE st1
              st3 == createAssistantMessage(st2, t, r)
              last == getLastMessages(st3.messages, 10)
              kept == SelectSeq(last, LAMBDA m : m.id # IntId(t))
              chatHistory == [i \in 1..Len(kept) |->
                                 [role |-> kept[i].role, content |-> kept[i].content]]
          IN  /\ t <= ClockStart + MaxTicks
              /\ now' = t
              /\ SetStore(st3)
              /\ assistantId' = [assistantId EXCEPT ![r] = IntId(t)]
              /\ sent' = [sent EXCEPT ![r] = BuildRequest(content, chatHistory)]
    /\ isTyping' = TRUE
    /\ isStreaming' = TRUE
    /\ error' = <<>>
    /\ abortController' = r
    /\ accumulatedContent' = [accumulatedContent EXCEPT ![r] = <<>>]
    /\ pc' = [pc EXCEPT ![r] = "fetch"]
    /\ UNCHANGED <<aborted, server, status, pos, calls, thrown, abortedAt, atAbort, clears, utilVars>>

\* the three refs stopStreaming works on
StreamingFlags ==
    [isStreaming |-> isStreaming, isTyping |-> isTyping, abortController |-> abortController]

\* stopStreaming that leaves the controller in the store
stopStreamingKeepingController(st) ==
    [store |-> [st EXCEPT !.isStreaming = FALSE, !.isTyping = FALSE],
     aborts |-> IF st.abortController # 0 THEN <<st.abortController>> ELSE <<>>]

\* messagesStore.stopStreaming: the refs afterwards and the controllers
\* abort() was called on
stopStreaming(st) ==
    [store |-> [isStreaming |-> FALSE, isTyping |-> FALSE, abortController |-> 0],
     aborts |-> IF st.abortController # 0 THEN <<st.abortController>> ELSE <<>>]

\* messagesStore.stopStreaming
StopStreaming ==
    LET stopped == stopStreaming(StreamingFlags) IN
    /\ IF stopped.aborts # <<>>
       THEN /\ Abort(stopped.aborts[1])
            /\ atAbort' = [atAbort EXCEPT ![stopped.aborts[1]] =
                              IF aborted[stopped.aborts[1]] THEN @
                              ELSE Len(ChunkCalls(calls[stopped.aborts[1]]))]
       ELSE UNCHANGED <<aborted, abortedAt, atAbort>>
    /\ abortController' = stopped.store.abortController
    /\ isStreaming' = stopped.store.isStreaming
    /\ isTyping' = stopped.store.isTyping
    /\ UNCHANGED <<pc, server, status, pos, calls, thrown, sent>>
    /\ UNCHANGED <<messages, storage, error, accumulatedContent, assistantId, now, clears, utilVars>>

\* messagesStore.clearMessages
ClearMessages ==
    /\ clears < MaxClears
    /\ clears' = clears + 1
    /\ SetStore(clearMessages(Store, now))
    /\ UNCHANGED <<svcVars, isTyping, isStreaming, error, abortController, viewVars, now, utilVars>>

\* a millisecond passes
Tick ==
    /\ now < ClockStart + MaxTicks
    /\ now' = now + 1
    /\ UNCHANGED <<svcVars, storeVars, viewVars, clears, utilVars>>

Init ==
    /\ InitStore
    /\ pc = [r \in Req |-> "none"]
    /\ aborted = [r \in Req |-> FALSE]
    /\ server = [r \in Req |-> NoServer]
    /\ status = [r \in Req |-> 0]
    /\ pos = [r \in Req |-> 0]
    /\ calls = [r \in Req |-> <<>>]
    /\ thrown = [r \in Req |-> <<>>]
    /\ abortedAt = [r \in Req |-> "never"]
    /\ sent = [r \in Req |-> <<>>]

Next ==
    \/ \E r \in Req : HandleSend(r)
    \/ \E r \in Req : FetchAborted(r) /\ View(r)
    \/ \E r \in Req : FetchFailed(r) /\ View(r)
    \/ \E r \in Req : FetchResponded(r, SessionServers) /\ View(r)
    \/ \E r \in Req : TextRead(r) /\ View(r)
    \/ \E r \in Req : TextAborted(r) /\ View(r)
    \/ \E r \in Req : ReadChunk(r) /\ View(r)
    \/ \E r \in Req : ReadDone(r) /\ View(r)
    \/ \E r \in Req : ReadFailed(r) /\ View(r)
    \/ \E r \in Req : ReadAborted(r) /\ View(r)
    \/ StopStreaming
    \/ ClearMessages
    \/ Tick

Spec == Init /\ [][Next]_vars

(***************************************************************************)
(* The assistant placeholder handleSend created for request r, where it is *)
(* still in the list.                                                      *)
(***************************************************************************)
Placeholders(r) ==
    {i \in 1..Len(messages) :
        messages[i].origin = r /\ messages[i].role = "assistant"}

(***************************************************************************)
(* C3: once stopStreaming has aborted a request that had applied N deltas, *)
(* the request makes no further onChunk or onError call, and its assistant *)
(* message holds the concatenation of exactly those N deltas.              *)
(***************************************************************************)
C3_CancelKeepsDeltas ==
    \A r \in Req :
        atAbort[r] >= 0 =>
            /\ ErrorCalls(calls[r]) = <<>>
            /\ Len(ChunkCalls(calls[r])) = atAbort[r]
            /\ \A i \in Placeholders(r) :
                   messages[i].content = Concat(ChunkArgs(calls[r]))

(***************************************************************************)
(* C9: at most one streaming request of the session is in flight at any    *)
(* time.                                                                   *)
(***************************************************************************)
C9_OneRequestInFlight ==
    Cardinality({r \in Req : InFlight(r)}) <= 1

(***************************************************************************)
(* C10: no two messages of the store's list have the same id.              *)
(***************************************************************************)
C10_UniqueIds ==
    \A i, j \in 1..Len(messages) :
        i # j => messages[i].id # messages[j].id

(***************************************************************************)
(* The request cache on its own.                                           *)
(***************************************************************************)
NextCache ==
    \/ CacheSet
    \/ CacheGet
    \/ CacheHas
    \/ CacheDelete
    \/ CacheClear
    \/ CacheCleanup
    \/ CacheTick

SpecCache == Init /\ [][NextCache]_vars

(***************************************************************************)
(* C11: a get of a key after set(key, v, ttl) returns v while              *)
(* now - insertedAt <= ttl and a miss once now - insertedAt > ttl, for     *)
(* every ttl given; the entry of the set is the one still held (not        *)
(* deleted, cleared or evicted for room in between).                       *)
(***************************************************************************)
C11_GetHonoursTtl ==
    (ret.op = "get" /\ lastSet[ret.url] # <<>>) =>
        LET s == lastSet[ret.url][1] IN
        s.ttl # <<>> =>
            ret.value = IF ret.at - s.at <= s.ttl[1] THEN <<s.data>> ELSE <<>>

(***************************************************************************)
(* C12: when a set returns, the sizes of the entries held sum to at most   *)
(* maxSize.                                                                *)
(***************************************************************************)
C12_WithinBudgetAfterSet ==
    ret.op = "set" => getCurrentSize(cache) <= MaxSize

(***************************************************************************)
(* StatePersistence on its own.                                            *)
(***************************************************************************)
NextPersist ==
    \/ PersistMessages
    \/ PersistContexts
    \/ PersistActiveContexts
    \/ PersistCurrentModel
    \/ PersistBaseUrl
    \/ Corrupt
    \/ LoadField
    \/ ClearAll
    \/ ExportState
    \/ CheckStorageHealth
    \/ ImportState
    \/ ImportExported

SpecPersist == Init /\ [][NextPersist]_vars

(***************************************************************************)
(* C13: a load of a field whose stored value is corrupted returns the      *)
(* absent value without throwing, and leaves the stored value and the load *)
(* result of every other field as they were.                               *)
(***************************************************************************)
C13_CorruptLoadIsLocal ==
    (ret.op = "load" /\ Corrupted(ret.before, ret.key)) =>
        /\ ret.value = <<>>
        /\ ~ret.threw
        /\ \A k \in STORAGE_KEYS \ {ret.key} :
               /\ storage[k] = ret.before[k]
               /\ Load(k, storage).value = ret.loads[k]

C13_Witness ==
    /\ ret.op = "load" /\ ret.key = "MESSAGES"
    /\ ret.before["MESSAGES"] = <<ArrayDoc(<<BadMessage>>)>>
    /\ ret.loads["CONTEXTS"] # <<>>
    /\ Corrupted(ret.before, "ACTIVE_CONTEXTS")

(***************************************************************************)
(* C14: after a load of messages, contexts or active-context ids whose     *)
(* stored value fails to parse or to validate, the field's key is gone     *)
(* from storage.                                                           *)
(***************************************************************************)
C14_CorruptKeyRemoved ==
    (/\ ret.op = "load"
     /\ ret.key \in {"MESSAGES", "CONTEXTS", "ACTIVE_CONTEXTS"}
     /\ Corrupted(ret.before, ret.key)) =>
        storage[ret.key] = Absent

(***************************************************************************)
(* C15: exporting a store whose fields were all written by saves of valid  *)
(* values and importing the exported document into a fresh store leaves    *)
(* the load result of every field as it was before the export.             *)
(***************************************************************************)
C15_ExportImportRoundTrip ==
    (ret.op = "restore" /\ ret.clean) => LoadAll(storage) = ret.loads

C15_Witness ==
    /\ ret.op = "restore" /\ ret.clean
    /\ Len(ret.loads["MESSAGES"]) = 1
    /\ Len(ret.loads["CONTEXTS"]) = 1
    /\ Len(ret.loads["ACTIVE_CONTEXTS"]) = 1
    /\ ret.loads["CURRENT_MODEL"] = <<TextDoc(<<"llama">>)>>
    /\ ret.loads["LMSTUDIO_BASE_URL"] # Null

(***************************************************************************)
(* C16: importState applies exactly the fields of the snapshot that pass   *)
(* validation: each valid field is saved whatever the other fields hold,   *)
(* and no other key changes.                                               *)
(***************************************************************************)
MessagesPass(state) ==
    state.messages.truthy /\ ~validateMessagesArray(state.messages.isArray,
                                                    state.messages.items).threw

ContextsPass(state) ==
    state.contexts.truthy /\ ~validateContextsArray(state.contexts.isArray,
                                                    state.contexts.items).threw

ActiveContextsPass(state) ==
    /\ state.activeContexts.truthy /\ state.activeContexts.isArray
    /\ \A i \in 1..Len(state.activeContexts.items) : IsString(state.activeContexts.items[i])

C16_ImportAppliesValidFields ==
    (ret.op = "import" /\ ret.value.parses /\ ret.value.version /\ ret.value.timestamp) =>
        LET state == ret.value IN
        /\ storage["MESSAGES"] =
               IF MessagesPass(state) THEN <<ArrayDoc(state.messages.items)>>
               ELSE ret.before["MESSAGES"]
        /\ storage["CONTEXTS"] =
               IF ContextsPass(state) THEN <<ArrayDoc(state.contexts.items)>>
               ELSE ret.before["CONTEXTS"]
        /\ storage["ACTIVE_CONTEXTS"] =
               IF ActiveContextsPass(state) THEN <<ArrayDoc(state.activeContexts.items)>>
               ELSE ret.before["ACTIVE_CONTEXTS"]
        /\ storage["CURRENT_MODEL"] =
               IF state.currentModel.truthy /\ state.currentModel.isString
               THEN <<state.currentModel.text>> ELSE ret.before["CURRENT_MODEL"]
        /\ storage["LMSTUDIO_BASE_URL"] =
               IF state.lmStudioBaseUrl.truthy /\ state.lmStudioBaseUrl.isString
               THEN <<state.lmStudioBaseUrl.text>> ELSE ret.before["LMSTUDIO_BASE_URL"]

(***************************************************************************)
(* C17: every delta is appended to the content the store holds for the     *)
(* streaming message at the moment the delta is applied: when a read       *)
(* delivers deltas to a request's placeholder, the placeholder's new       *)
(* content is its stored content followed by those deltas, so whatever     *)
(* another writer put there in between is still a prefix of it.            *)
(***************************************************************************)
C17_DeltaAppendsToStored ==
    [][\A r \in Req :
          LET new == SubSeq(calls'[r], Len(calls[r]) + 1, Len(calls'[r]))
              i == FindIndex(messages, assistantId[r])
          IN  (pc[r] = "read" /\ ChunkCalls(new) # <<>> /\ i \in Placeholders(r)) =>
                  messages'[i].content =
                      messages[i].content \o Concat(ChunkArgs(new))]_vars

(***************************************************************************)
(* C18: when the transport call of a request started by handleSend         *)
(* settles, by completion, failure or cancellation, the session is idle:   *)
(* isStreaming and isTyping are false and no abort controller is held.     *)
(***************************************************************************)
Idle == ~isStreaming /\ ~isTyping /\ abortController = 0

C18_SettleReturnsToIdle ==
    [][\A r \in Req : (InFlight(r) /\ Settled(r)') => Idle']_vars

C18_Witness ==
    /\ pc[1] = "rejected"
    /\ pc[2] = "resolved" /\ aborted[2]
    /\ Idle

(***************************************************************************)
(* The messages store on its own, from a fresh session and from a session  *)
(* whose list has reached MAX_MESSAGES_PER_SESSION.                        *)
(***************************************************************************)
\* store calls made in one run
MaxStoreCalls == 2

\* a list that 999 addMessage calls after the welcome message have built
FullList ==
    [i \in 1..MAX_MESSAGES_PER_SESSION |->
        IF i = 1 THEN WelcomeMessage(IntId(1), 1)
        ELSE Message(IntId(i), IF i % 2 = 0 THEN "user" ELSE "assistant", <<"m">>, i, 0)]

StoreFrame ==
    UNCHANGED <<svcVars, isTyping, isStreaming, error, abortController, viewVars,
                now, clears, cache, lastSet, models, contextsStore, apiRequest>>

StoreCalled(op, id) == [op |-> op, key |-> id, n |-> ret.n + 1]

StoreCreateMessage ==
    /\ ret.n < MaxStoreCalls
    /\ \/ SetStore(createUserMessage(Store, <<"hi">>, now, 0))
       \/ SetStore(createAssistantMessage(Store, now, 0))
    /\ ret' = StoreCalled("add", IntId(now))
    /\ StoreFrame

StoreUpdateMessage ==
    /\ ret.n < MaxStoreCalls
    /\ \E id \in {IntId(0), IntId(1), IntId(now)} :
          /\ SetStore(updateMessage(Store, id, <<"edited">>))
          /\ ret' = StoreCalled("update", id)
    /\ StoreFrame

StoreRemoveMessage ==
    /\ ret.n < MaxStoreCalls
    /\ \E id \in {IntId(0), IntId(1), IntId(now)} :
          /\ SetStore(removeMessage(Store, id))
          /\ ret' = StoreCalled("remove", id)
    /\ StoreFrame

InitMessages ==
    /\ \/ /\ messages = <<WelcomeMessage(IntId(1), ClockStart)>>
          /\ storage = [k \in STORAGE_KEYS |-> Absent]
          /\ now = ClockStart
       \/ /\ messages = FullList
          /\ storage = [k \in STORAGE_KEYS |->
                           IF k = "MESSAGES" THEN <<Stringify(FullList)>> ELSE Absent]
          /\ now = MAX_MESSAGES_PER_SESSION + 1
    /\ isTyping = FALSE
    /\ isStreaming = FALSE
    /\ error = <<>>
    /\ abortController = 0
    /\ accumulatedContent = [r \in Req |-> <<>>]
    /\ assistantId = [r \in Req |-> IntId(0)]
    /\ atAbort = [r \in Req |-> -1]
    /\ clears = 0
    /\ cache = <<>>
    /\ lastSet = [u \in Urls |-> <<>>]
    /\ ret = [op |-> "none", key |-> IntId(0), n |-> 0]
    /\ models = InitModels
    /\ contextsStore = InitContexts
    /\ apiRequest = InitRequest
    /\ pc = [r \in Req |-> "none"]
    /\ aborted = [r \in Req |-> FALSE]
    /\ server = [r \in Req |-> NoServer]
    /\ status = [r \in Req |-> 0]
    /\ pos = [r \in Req |-> 0]
    /\ calls = [r \in Req |-> <<>>]
    /\ thrown = [r \in Req |-> <<>>]
    /\ abortedAt = [r \in Req |-> "never"]
    /\ sent = [r \in Req |-> <<>>]

NextStore ==
    \/ StoreCreateMessage
    \/ StoreUpdateMessage
    \/ StoreRemoveMessage
    \/ ClearMessages
    \/ Tick

SpecStore == InitMessages /\ [][NextStore]_vars

(***************************************************************************)
(* C19: the list never holds more than MAX_MESSAGES_PER_SESSION messages,  *)
(* and an addMessage leaves the most recent messages in their order: the   *)
(* old list with the new message appended, less the oldest messages        *)
(* beyond the limit.                                                       *)
(***************************************************************************)
C19_OldestDroppedFirst ==
    [][/\ Len(messages') <= MAX_MESSAGES_PER_SESSION
       /\ (ret'.op = "add" /\ ret'.n = ret.n + 1) =>
              LET k == IF Len(messages) + 1 > MAX_MESSAGES_PER_SESSION
                       THEN Len(messages) + 1 - MAX_MESSAGES_PER_SESSION ELSE 0
              IN  /\ Len(messages') = Len(messages) + 1 - k
                  /\ \A i \in 1..Len(messages) - k : messages'[i] = messages[i + k]
                  /\ messages'[Len(messages')].id = ret'.key]_vars

C19_Witness ==
    /\ ret.op = "add"
    /\ Len(messages) = MAX_MESSAGES_PER_SESSION
    /\ messages[1].id = IntId(2)
    /\ messages[MAX_MESSAGES_PER_SESSION].id = IntId(now)

(***************************************************************************)
(* C20: after every store action that changes the list, the document under *)
(* the messages key is the serialization of the list; an updateMessage or  *)
(* removeMessage with an id the list does not hold changes neither.        *)
(***************************************************************************)
C20_StorageFollowsList ==
    [][(ret'.n = ret.n + 1 \/ clears' = clears + 1) =>
          IF ret'.n = ret.n + 1 /\ ret'.op \in {"update", "remove"}
             /\ FindIndex(messages, ret'.key) = 0
          THEN UNCHANGED <<messages, storage>>
          ELSE storage'["MESSAGES"] = <<Stringify(messages')>>]_vars

C20_Witness ==
    /\ ret.op = "update" /\ ret.key = IntId(1) /\ ret.n = 2
    /\ messages[1].content = <<"edited">>
    /\ Len(messages) = 2
    /\ storage["MESSAGES"] = <<Stringify(messages)>>

(***************************************************************************)
(* C21: in every state of a session, stopStreaming called twice in a row   *)
(* leaves isStreaming false, isTyping false and abortController null, as   *)
(* one call does, and the two calls together call abort() at most once;    *)
(* with no controller in the store no abort() is called at all.            *)
(***************************************************************************)
C21_StopIsIdempotent ==
    LET once == stopStreaming(StreamingFlags)
        twice == stopStreaming(once.store)
    IN  /\ once.store = [isStreaming |-> FALSE, isTyping |-> FALSE, abortController |-> 0]
        /\ twice.store = once.store
        /\ Len(once.aborts \o twice.aborts) <= 1
        /\ abortController = 0 => once.aborts = <<>>

\* a request is streaming and its controller is in the store
C21_Witness ==
    /\ abortController # 0
    /\ isStreaming
    /\ pc[abortController] = "read"
    /\ stopStreaming(StreamingFlags).aborts = <<abortController>>

UNKNOWN_ERROR == <<"An", "unexpected", "error", "occurred">>

ErrorKinds ==
    {LMSTUDIO_CONNECTION, NETWORK_ERROR, UNKNOWN_ERROR, UnknownError, BodyNullError.message}

C23_ReportsAreKinds ==
    \A r \in Req :
        /\ \A i \in 1..Len(calls[r]) :
               calls[r][i].kind = "error" => calls[r][i].arg \in ErrorKinds
        /\ pc[r] = "rejected" => thrown[r] \in ErrorKinds

(***************************************************************************)
(* C24: the messages array handleSend sends is the last k messages of the  *)
(* history, for some k, in stored order with role 'developer' sent as      *)
(* 'system', followed by the new user turn as the last element and nowhere *)
(* else.  The history is what the store held before the turn and the       *)
(* context messages the turn itself stored.                                *)
(***************************************************************************)
\* the request for a user turn after the history msgs
RequestAfter(msgs, content) ==
    BuildRequest(content, [i \in 1..Len(msgs) |->
                              [role |-> msgs[i].role, content |-> msgs[i].content]])

C24_HistoryThenUserTurn ==
    [][\A r \in Req :
          (pc[r] = "none" /\ pc'[r] = "fetch") =>
              LET contexts == SelectSeq(messages',
                                  LAMBDA m : m.role = "developer" /\ m.origin = r)
                  before == messages \o contexts
              IN  /\ sent'[r] # <<>>
                  /\ \E k \in 0..Len(before) :
                         sent'[r] = RequestAfter(LastOf(before, k),
                                                 sent'[r][Len(sent'[r])].content)]_vars

(***************************************************************************)
(* RequestCache.generateKey with options, character by character.          *)
(***************************************************************************)
\* longest url tried
MaxUrlLen == 2

RECURSIVE Strings(_, _)
Strings(alphabet, n) ==
    IF n = 0 THEN {<<>>}
    ELSE LET shorter == Strings(alphabet, n - 1) IN
         shorter \cup {Append(w, c) : w \in shorter, c \in alphabet}

KeyUrls(n) == Strings({"a", ":"}, n) \ {<<>>}

\* options.method: not given, or a method name
KeyMethods == {<<>>, <<"P", "O", "S", "T">>}

\* options.body: not given, a string, or a FormData holding one field
KeyBodies ==
    {[type |-> "none", text |-> <<>>]}
        \cup {[type |-> "string", text |-> w] : w \in Strings({"a", ":"}, 1)}
        \cup {[type |-> "FormData", text |-> w] : w \in {<<"1">>, <<"2">>}}

\* options.headers: not given, a plain object {k: value}, or a Headers
\* instance holding k: value
KeyHeaders ==
    {[type |-> "none", value |-> <<>>], [type |-> "object", value |-> <<"1">>]}
        \cup {[type |-> "Headers", value |-> w] : w \in {<<"1">>, <<"2">>}}

KeyRequests(n) ==
    [url : KeyUrls(n), method : KeyMethods, body : KeyBodies, headers : KeyHeaders]

\* JSON.stringify of options.body / options.headers: a string is quoted, a
\* plain object is written out, a FormData or Headers instance has no
\* enumerable property of its own
StringifyOption(v) ==
    IF v.type = "string" THEN JsonString(v.text)
    ELSE IF v.type = "object" THEN <<"{">> \o JsonString(<<"k">>) \o <<":">>
                                       \o JsonString(v.value) \o <<"}">>
    ELSE <<"{", "}">>

\* options?.body ? JSON.stringify(options.body) : ''
Truthy(v) == v.type # "none" /\ ~(v.type = "string" /\ v.text = <<>>)

generateKeyOf(q) ==
    LET method == IF q.method # <<>> THEN q.method ELSE <<"G", "E", "T">>
        body == IF Truthy(q.body) THEN StringifyOption(q.body) ELSE <<>>
        headers == IF Truthy(q.headers) THEN StringifyOption(q.headers) ELSE <<>>
    IN  method \o <<":">> \o q.url \o <<":">> \o body \o <<":">> \o headers

\* the request fetch makes: GET when no method is given, no body when the
\* body is empty
Effective(q) ==
    [q EXCEPT !.method = IF @ = <<>> THEN <<"G", "E", "T">> ELSE @,
              !.body = IF Truthy(@) THEN @ ELSE [type |-> "none", text |-> <<>>]]

\* generateKey is called for two requests
GenerateKeys ==
    /\ ret.op = "none"
    /\ \E a, b \in KeyRequests(MaxUrlLen) :
          ret' = [op |-> "keys", a |-> a, b |-> b,
                  keyA |-> generateKeyOf(a), keyB |-> generateKeyOf(b)]
    /\ UNCHANGED <<svcVars, storeVars, viewVars, now, clears, cache, lastSet, models,
                   contextsStore, apiRequest>>

NextKeys ==
    \/ GenerateKeys

SpecKeys == Init /\ [][NextKeys]_vars

(***************************************************************************)
(* C25: two requests with the same cache key are the same request: same    *)
(* method, url, body and headers.                                          *)
(***************************************************************************)
C25_KeyIsInjective ==
    (ret.op = "keys" /\ ret.keyA = ret.keyB) => Effective(ret.a) = Effective(ret.b)

(***************************************************************************)
(* cachedFetch over the singleton requestCache.                            *)
(***************************************************************************)
\* cacheConfigs.models.ttl
ModelsTTL == 300000

\* cacheConfig?.ttl: no config, the chat config (ttl 0), a config with ttl 1
FetchConfigs == {<<>>, <<0>>, <<1>>}

\* what the network answers: a 2xx response with a JSON body, or a non-2xx
\* response
FetchResponses ==
    {[ok |-> TRUE, data |-> d] : d \in CacheData} \cup {[ok |-> FALSE, data |-> <<>>]}

\* cachedFetch(url, undefined, cacheConfig) at time t when the network would
\* answer response: the value returned (<<>> when it throws), whether fetch
\* was called, and the Map afterwards
cachedFetch(c, url, cacheConfig, t, response) ==
    LET cached == cacheGet(c, url, t) IN
    IF cached.value # <<>>
    THEN [value |-> cached.value, network |-> FALSE, cache |-> cached.cache]
    ELSE IF ~response.ok
    THEN [value |-> <<>>, network |-> TRUE, cache |-> cached.cache]
    ELSE LET ttl == IF cacheConfig = <<>> \/ cacheConfig = <<0>>
                    THEN ModelsTTL ELSE cacheConfig[1]
         IN  [value |-> <<response.data>>, network |-> TRUE,
              cache |-> cacheSet(cached.cache, url, response.data, <<ttl>>, t)]

CachedFetch ==
    \E url \in Urls, cacheConfig \in FetchConfigs, response \in FetchResponses :
        LET o == cachedFetch(cache, url, cacheConfig, now, response)
            stored == o.network /\ o.value # <<>>
            gone == IF stored /\ getCurrentSize(cacheGet(cache, url, now).cache)
                                     + calculateSize(response.data) > MaxSize
                    THEN {UrlOf(k) : k \in Evicted(cacheGet(cache, url, now).cache)}
                    ELSE {}
        IN  /\ cache' = o.cache
            /\ lastSet' = [u \in Urls |->
                              IF u = url /\ stored
                              THEN <<[data |-> response.data, ttl |-> cacheConfig, at |-> now]>>
                              ELSE IF u \in gone THEN <<>> ELSE lastSet[u]]
            /\ ret' = [op |-> "cachedFetch", url |-> url, value |-> o.value, at |-> now,
                       network |-> o.network, prior |-> lastSet[url]]
            /\ UNCHANGED now /\ CacheFrame

NextFetch ==
    \/ CachedFetch
    \/ CacheCleanup
    \/ CacheTick

SpecFetch == Init /\ [][NextFetch]_vars

(***************************************************************************)
(* C26: a cachedFetch for a url whose last stored response came from a     *)
(* cachedFetch made with the chat configuration (ttl 0) calls fetch again  *)
(* and is not answered from the cache.                                     *)
(***************************************************************************)
C26_ChatConfigNotCached ==
    (ret.op = "cachedFetch" /\ ret.prior # <<>> /\ ret.prior[1].ttl = <<0>>) => ret.network

(***************************************************************************)
(* C27: a set that finds the sizes held plus the new size over maxSize     *)
(* removes a quarter of the entries held, rounded up, none of them newer   *)
(* than an entry it keeps, and nothing else, and then holds the new entry; *)
(* a set within the budget removes nothing.  The entries kept are          *)
(* unchanged.                                                              *)
(***************************************************************************)
Keys(c) == {c[i].key : i \in 1..Len(c)}

EntryOf(c, key) == c[MapIndex(c, key)]

SpecSweep == Init /\ [][NextCache]_vars /\ WF_vars(CacheCleanup)

\* the entry held for url has outlived its ttl
HeldExpired(url) ==
    /\ generateKey(url) \in Keys(cache)
    /\ Expired(EntryOf(cache, generateKey(url)), now)

\* a step in which the Map becomes what cleanup makes of it
Sweep ==
    /\ cleanup(cache, now) # cache
    /\ cache' = cleanup(cache, now)
    /\ UNCHANGED <<lastSet, now>>

(***************************************************************************)
(* C28: an entry whose ttl has elapsed is eventually gone from the Map     *)
(* (removed, or replaced by a newer set), whether or not it is read again, *)
(* and a sweep removes only entries whose ttl has elapsed.                 *)
(***************************************************************************)
C28_SweepRemovesExpired ==
    /\ \A url \in Urls : HeldExpired(url) ~> ~HeldExpired(url)
    /\ [][Sweep =>
             \A k \in Keys(cache) \ Keys(cache') : Expired(EntryOf(cache, k), now)]_vars

\* the last call was the set of an entry that has since expired, and the
\* entry is gone: the sweep removed it
C28_Witness ==
    /\ ret.op = "set"
    /\ lastSet[ret.url] # <<>>
    /\ lastSet[ret.url][1].at = ret.at
    /\ lastSet[ret.url][1].ttl = <<1>>
    /\ now - ret.at > 1
    /\ generateKey(ret.url) \notin Keys(cache)


(***************************************************************************)
(* The models store: useModelsStore over StatePersistence and the          *)
(* service's getAvailableModels.                                           *)
(***************************************************************************)
ModelIdLists == {<<>>, <<"model1">>, <<"model1", "model2">>}

ModelsStatuses == {200, 401, 404, 500}

\* the dynamic import of the service module failed: no request is made
ImportFailed ==
    [kind |-> "import", status |-> 0, json |-> FALSE, body |-> "none", ids |-> <<>>]

\* fetch rejected
ModelsFetchRejected ==
    [kind |-> "reject", status |-> 0, json |-> FALSE, body |-> "none", ids |-> <<>>]

\* what the models endpoint answers: a status, whether the content-type is
\* JSON, and a body that does not parse ("invalid"), that has no data
\* ("nodata") or whose data lists models with these ids ("ids")
ModelsResponses ==
    {ModelsFetchRejected}
    \cup [kind : {"response"}, status : ModelsStatuses, json : BOOLEAN,
          body : {"invalid", "nodata"}, ids : {<<>>}]
    \cup [kind : {"response"}, status : ModelsStatuses, json : BOOLEAN,
          body : {"ids"}, ids : ModelIdLists]

\* the try block of getAvailableModels
getAvailableModelsTry(response) ==
    IF response.kind = "reject" THEN Threw
    ELSE IF ~ResponseOk(response.status)
         THEN IF response.status = 404 \/ response.status = 401
              THEN Returned(<<>>)
              ELSE Threw
    ELSE IF ~response.json THEN Returned(<<>>)
    ELSE IF response.body = "invalid" THEN Threw
    ELSE IF response.body = "nodata" THEN Returned(<<>>)
    ELSE Returned(response.ids)

\* getAvailableModels: the catch returns []
getAvailableModels(response) ==
    LET t == getAvailableModelsTry(response) IN
    IF t.threw THEN <<>> ELSE t.items

\* loadAvailableModels without its catch and finally
loadAvailableModelsUncaught(st, outcome, answer) ==
    IF outcome.threw
    THEN [st EXCEPT !.stage = "idle", !.inFlight = 0, !.answer = answer,
                    !.rejected = TRUE, !.op = "loadAvailableModels settled"]
    ELSE [st EXCEPT !.availableModels = outcome.items, !.isLoadingModels = FALSE,
                    !.stage = "idle", !.inFlight = 0, !.answer = answer,
                    !.rejected = FALSE, !.op = "loadAvailableModels settled"]

\* loadAvailableModels from its first await on: the try assigns the models,
\* the catch assigns [], the finally lowers isLoadingModels
loadAvailableModelsSettled(st, outcome, answer) ==
    [st EXCEPT !.availableModels = IF outcome.threw THEN <<>> ELSE outcome.items,
               !.isLoadingModels = FALSE,
               !.stage = "idle", !.inFlight = 0, !.answer = answer,
               !.rejected = FALSE, !.op = "loadAvailableModels settled"]

\* model && model.trim() !== ''
NonBlank(chars) == chars # <<>> /\ Trim(chars) # <<>>

\* setCurrentModel: the store and the storage it leaves
setCurrentModel(st, sto, model) ==
    IF NonBlank(model)
    THEN [store |-> [st EXCEPT !.currentModel = model],
          storage |-> saveCurrentModel(sto, TextDoc(model))]
    ELSE [store |-> [st EXCEPT !.currentModel = <<>>],
          storage |-> saveCurrentModel(sto, TextDoc(<<>>))]

\* loadCurrentModelFromStorage
loadCurrentModelFromStorage(st, sto) ==
    LET stored == loadCurrentModel(sto).value IN
    IF stored # Null /\ NonBlank(stored[1].text)
    THEN [st EXCEPT !.currentModel = Trim(stored[1].text)]
    ELSE [st EXCEPT !.currentModel = <<>>]

\* the names setCurrentModel is called with
ModelInputs == {<<>>, <<" ">>, <<"llama">>, <<" ", "llama">>, <<"phi">>}

ModelsFrame ==
    UNCHANGED <<svcVars, messages, isTyping, isStreaming, error, abortController,
                viewVars, now, clears, cache, lastSet, ret, contextsStore,
                apiRequest>>

\* a call of loadAvailableModels up to its first await
LoadAvailableModels ==
    /\ models' = IF models.isLoadingModels
                 THEN [models EXCEPT !.op = "loadAvailableModels returned",
                                     !.asked = <<models.lmStudioBaseUrl>>]
                 ELSE [models EXCEPT !.isLoadingModels = TRUE, !.stage = "import",
                                     !.op = "loadAvailableModels",
                                     !.asked = <<models.lmStudioBaseUrl>>]
    /\ UNCHANGED storage
    /\ ModelsFrame

\* the import resolves, createLMStudioService reads lmStudioBaseUrl and
\* getAvailableModels issues its request
ImportResolves ==
    /\ models.stage = "import"
    /\ models' = [models EXCEPT !.stage = "fetch", !.inFlight = @ + 1,
                                !.op = "getAvailableModels",
                                !.requestUrl = <<models.lmStudioBaseUrl>>]
    /\ UNCHANGED storage
    /\ ModelsFrame

\* the import rejects
ImportRejects ==
    /\ models.stage = "import"
    /\ models' = [loadAvailableModelsSettled(models, Threw, ImportFailed) EXCEPT
                      !.loadedFor = <<models.lmStudioBaseUrl>>]
    /\ UNCHANGED storage
    /\ ModelsFrame

\* the request is answered and loadAvailableModels runs to its end
ModelsAnswered ==
    /\ models.stage = "fetch"
    /\ \E response \in ModelsResponses :
           models' = [loadAvailableModelsSettled(models,
                          Returned(getAvailableModels(response)), response) EXCEPT
                         !.loadedFor = models.requestUrl]
    /\ UNCHANGED storage
    /\ ModelsFrame

SetCurrentModel ==
    \E model \in ModelInputs :
        LET o == setCurrentModel(models, storage, model) IN
        /\ models' = [o.store EXCEPT !.op = "setCurrentModel", !.arg = model,
                                     !.saved = <<model>>]
        /\ storage' = o.storage
        /\ ModelsFrame

\* the base URLs setLMStudioBaseUrl is called with
ModelsBaseUrls == {<<"http://a:1234">>, <<"http://b:1234">>}

\* setLMStudioBaseUrl: the store and the storage it leaves
setLMStudioBaseUrl(st, sto, url) ==
    [store |-> [st EXCEPT !.lmStudioBaseUrl = url],
     storage |-> saveLMStudioBaseUrl(sto, TextDoc(url))]

SetLMStudioBaseUrl ==
    \E url \in ModelsBaseUrls :
        LET o == setLMStudioBaseUrl(models, storage, url) IN
        /\ models' = [o.store EXCEPT !.op = "setLMStudioBaseUrl", !.arg = url]
        /\ storage' = o.storage
        /\ ModelsFrame

LoadCurrentModelFromStorage ==
    /\ models' = [loadCurrentModelFromStorage(models, storage) EXCEPT
                      !.op = "loadCurrentModelFromStorage", !.arg = <<>>]
    /\ UNCHANGED storage
    /\ ModelsFrame

\* refreshCurrentModel: the load, and currentModel returned
RefreshCurrentModel ==
    /\ models' = [loadCurrentModelFromStorage(models, storage) EXCEPT
                      !.op = "refreshCurrentModel",
                      !.arg = loadCurrentModelFromStorage(models, storage).currentModel]
    /\ UNCHANGED storage
    /\ ModelsFrame

NextModels ==
    \/ LoadAvailableModels
    \/ ImportResolves
    \/ ImportRejects
    \/ ModelsAnswered
    \/ SetCurrentModel
    \/ SetLMStudioBaseUrl
    \/ LoadCurrentModelFromStorage
    \/ RefreshCurrentModel

SpecModels == Init /\ [][NextModels]_vars


\* the ids the endpoint listed: those of a JSON answer with an ok status
\* whose data lists models, and none when the load failed anywhere
ListedIds(answer) ==
    IF /\ answer.kind = "response"
       /\ ResponseOk(answer.status)
       /\ answer.json
       /\ answer.body = "ids"
    THEN answer.ids
    ELSE <<>>

Kept(m) == IF NonBlank(m) THEN m ELSE <<>>

(***************************************************************************)
(* C30: after setCurrentModel(m), currentModel is m ('' for a blank m) and *)
(* the stored name is what was set; a loadCurrentModelFromStorage or       *)
(* refreshCurrentModel after it, with no other setCurrentModel in between, *)
(* leaves currentModel = m ('' for a blank m).                             *)
(***************************************************************************)
C30_SetThenLoadYieldsModel ==
    /\ models.op = "setCurrentModel" =>
           /\ models.currentModel = Kept(models.arg)
           /\ storage["CURRENT_MODEL"] = <<TextDoc(Kept(models.arg))>>
    /\ (models.op \in {"loadCurrentModelFromStorage", "refreshCurrentModel"}
           /\ models.saved # <<>>) =>
           models.currentModel = Kept(models.saved[1])


\* no handleSend started after that of request r
Latest(r) == \A q \in Req : q > r => pc[q] = "none"

(***************************************************************************)
(* C31: while the request of the latest handleSend is in flight and has    *)
(* not been cancelled, isStreaming is true and the store's abortController *)
(* is that request's controller: in particular the finally block of an     *)
(* earlier handleSend does not clear them.                                 *)
(***************************************************************************)
C31_FlagsBelongToRequest ==
    \A r \in Req :
        (InFlight(r) /\ Latest(r) /\ ~aborted[r]) =>
            /\ isStreaming
            /\ abortController = r


(***************************************************************************)
(* C32: a step in which request r applies a delta changes no message but   *)
(* the assistant placeholder handleSend created for r: the list keeps its  *)
(* length, and every other message, the user message of the turn included, *)
(* keeps its role and content.                                             *)
(***************************************************************************)
C32_DeltaTouchesPlaceholderOnly ==
    [][\A r \in Req :
          Len(ChunkCalls(calls'[r])) > Len(ChunkCalls(calls[r])) =>
              /\ Len(messages') = Len(messages)
              /\ \A i \in 1..Len(messages) :
                     i \notin Placeholders(r) =>
                         /\ messages'[i].role = messages[i].role
                         /\ messages'[i].content = messages[i].content]_vars


\* the loaded list has the ids, roles and contents of msgs, in order
SameMessages(loaded, msgs) ==
    /\ Len(loaded) = Len(msgs)
    /\ \A i \in 1..Len(msgs) :
           /\ loaded[i].id = NumV(msgs[i].id)
           /\ loaded[i].role = StrV(<<msgs[i].role>>)
           /\ loaded[i].content = StrV(msgs[i].content)

(***************************************************************************)
(* C33: a loadMessages of the document saveMessages(m) wrote returns the   *)
(* ids, roles and contents of m in order and leaves the document stored.   *)
(***************************************************************************)
C33_MessagesRoundTrip ==
    \A m \in MessageLists :
        (/\ ret.op = "load"
         /\ ret.key = "MESSAGES"
         /\ ret.before["MESSAGES"] = <<Stringify(m)>>) =>
            /\ SameMessages(ret.value, m)
            /\ storage["MESSAGES"] = ret.before["MESSAGES"]


(***************************************************************************)
(* C34: when exportState has returned, every storage key holds the value   *)
(* it held before the call.                                                *)
(***************************************************************************)
C34_ExportOnlyReads ==
    ret.op = "export" => \A key \in STORAGE_KEYS : storage[key] = ret.before[key]


(***************************************************************************)
(* C35: checkStorageHealth reports healthy with no issues when storage is  *)
(* available and every key is absent or holds what the key's save wrote    *)
(* for a valid value.                                                      *)
(***************************************************************************)
C35_SavedStateIsHealthy ==
    (ret.op = "health" /\ ret.value.available /\ ret.clean) =>
        /\ ret.value.healthy
        /\ ret.value.issues = {}


(***************************************************************************)
(* C36: once no model load is in flight, availableModels was assigned by   *)
(* a load for the current lmStudioBaseUrl whenever the most recent         *)
(* loadAvailableModels call was made under that URL: a load requested      *)
(* after a change of the base URL is not answered with the models of the   *)
(* previous URL.                                                           *)
(***************************************************************************)
C36_ModelsOfCurrentUrl ==
    (models.stage = "idle" /\ models.asked = <<models.lmStudioBaseUrl>>) =>
        models.loadedFor = <<models.lmStudioBaseUrl>>


(***************************************************************************)
(* The contexts store: useContextsStore over StatePersistence.  Array      *)
(* indexes are those of the code: the first element is at 0, and -1 means  *)
(* not found.                                                              *)
(***************************************************************************)
\* array.findIndex((c) => c.id === id)
FindContextIndex(ctxs, id) ==
    IF \E i \in 1..Len(ctxs) : ctxs[i].id = id
    THEN (CHOOSE i \in 1..Len(ctxs) :
              /\ ctxs[i].id = id
              /\ \A j \in 1..(i - 1) : ctxs[j].id # id) - 1
    ELSE -1

\* array.indexOf(id)
IndexOf(ids, id) ==
    IF \E i \in 1..Len(ids) : ids[i] = id
    THEN (CHOOSE i \in 1..Len(ids) :
              /\ ids[i] = id
              /\ \A j \in 1..(i - 1) : ids[j] # id) - 1
    ELSE -1

\* array.splice(index, 1): a negative index counts from the end
Splice(arr, index) ==
    LET start == IF index < 0
                 THEN (IF Len(arr) + index < 0 THEN 0 ELSE Len(arr) + index)
                 ELSE (IF index > Len(arr) THEN Len(arr) ELSE index)
    IN  [i \in 1..(IF start < Len(arr) THEN Len(arr) - 1 ELSE Len(arr)) |->
            IF i <= start THEN arr[i] ELSE arr[i + 1]]

\* array.filter((_, i) => i !== index)
FilterOut(arr, index) ==
    IF index >= 0 /\ index < Len(arr)
    THEN [i \in 1..(Len(arr) - 1) |-> IF i <= index THEN arr[i] ELSE arr[i + 1]]
    ELSE arr

\* deleteContext of the earlier chat store: index >= -1, and splice in place
deleteContextEarlier(st, sto, id) ==
    LET index == FindContextIndex(st.savedContexts, id)
        selectedIndex == IndexOf(st.selectedContextIds, id)
    IN  IF index >= -1
        THEN LET newContexts == Splice(st.savedContexts, index) IN
             [store |-> [st EXCEPT !.savedContexts = newContexts,
                                   !.selectedContextIds =
                                       IF selectedIndex >= 0
                                       THEN Splice(@, selectedIndex) ELSE @],
              storage |-> saveContexts(sto, newContexts)]
        ELSE [store |-> st, storage |-> sto]

\* useContextsStore.deleteContext
deleteContext(st, sto, id) ==
    LET index == FindContextIndex(st.savedContexts, id)
        selectedIndex == IndexOf(st.selectedContextIds, id)
    IN  IF index >= 0
        THEN LET newContexts == FilterOut(st.savedContexts, index) IN
             [store |-> [st EXCEPT !.savedContexts = newContexts,
                                   !.selectedContextIds =
                                       IF selectedIndex >= 0
                                       THEN Splice(@, selectedIndex) ELSE @],
              storage |-> saveContexts(sto, newContexts)]
        ELSE [store |-> st, storage |-> sto]

\* useContextsStore.saveContext
saveContext(st, sto, context) ==
    LET existingIndex == FindContextIndex(st.savedContexts, context.id)
        newContexts == IF existingIndex >= 0
                       THEN [st.savedContexts EXCEPT ![existingIndex + 1] = context]
                       ELSE Append(st.savedContexts, context)
    IN  [store |-> [st EXCEPT !.savedContexts = newContexts],
         storage |-> saveContexts(sto, newContexts)]

\* useContextsStore.toggleContextSelection
toggleContextSelection(st, id) ==
    LET index == IndexOf(st.selectedContextIds, id) IN
    [st EXCEPT !.selectedContextIds = IF index >= 0 THEN Splice(@, index)
                                      ELSE Append(@, id)]

\* useContextsStore.loadContextsFromStorage; the items of the stored
\* document become the contexts
loadContextsFromStorage(st, sto) ==
    LET l == loadContexts(sto) IN
    [store |-> [st EXCEPT !.savedContexts =
                   [i \in 1..Len(l.value) |->
                       [id |-> l.value[i].id.str, type |-> l.value[i].type.str,
                        title |-> l.value[i].title.str,
                        content |-> l.value[i].content.str]]],
     storage |-> l.storage]

ContextIds == {<<"c1">>, <<"c2">>, <<"c3">>}

\* the contexts saveContext is called with
ContextInputs ==
    [id : ContextIds, type : {<<"text">>}, title : {<<"notes">>},
     content : {<<"be", "brief">>, <<"be", "kind">>}]

ContextsFrame ==
    UNCHANGED <<svcVars, messages, isTyping, isStreaming, error, abortController,
                viewVars, now, clears, cache, lastSet, ret, models, apiRequest>>

\* what contextsStore holds after a call that left store st
ContextsCalled(st, op, arg) ==
    [st EXCEPT !.op = op, !.arg = arg,
               !.before = [savedContexts |-> contextsStore.savedContexts,
                           selectedContextIds |-> contextsStore.selectedContextIds,
                           stored |-> storage["CONTEXTS"]]]

SaveContext ==
    \E context \in ContextInputs :
        LET o == saveContext(contextsStore, storage, context) IN
        /\ contextsStore' = ContextsCalled(o.store, "saveContext", context.id)
        /\ storage' = o.storage
        /\ ContextsFrame

DeleteContext ==
    \E id \in ContextIds :
        LET o == deleteContext(contextsStore, storage, id) IN
        /\ contextsStore' = ContextsCalled(o.store, "deleteContext", id)
        /\ storage' = o.storage
        /\ ContextsFrame

ToggleContextSelection ==
    \E id \in ContextIds :
        /\ contextsStore' = ContextsCalled(toggleContextSelection(contextsStore, id),
                                           "toggleContextSelection", id)
        /\ UNCHANGED storage
        /\ ContextsFrame

LoadContextsFromStorage ==
    LET o == loadContextsFromStorage(contextsStore, storage) IN
    /\ contextsStore' = ContextsCalled(o.store, "loadContextsFromStorage", <<>>)
    /\ storage' = o.storage
    /\ ContextsFrame

\* a new page: the store starts over, localStorage stays
ReloadContexts ==
    /\ contextsStore' = InitContexts
    /\ UNCHANGED storage
    /\ ContextsFrame

NextContexts ==
    \/ SaveContext
    \/ DeleteContext
    \/ ToggleContextSelection
    \/ LoadContextsFromStorage
    \/ ReloadContexts

SpecContexts == Init /\ [][NextContexts]_vars

\* the ids of a list of contexts, in order
IdsOf(ctxs) == [i \in 1..Len(ctxs) |-> ctxs[i].id]

OnComplete == [kind |-> "complete", arg |-> <<>>]

\* `Stream processing error with ${provider}`
StreamErrorMessage == <<"Stream", "processing", "error", "with", "lmstudio">>

\* the try block around one line: the calls it makes, whether it returns
\* from processStream and whether it throws
BaseTryLine(line) ==
    IF ~StartsWith(line, DataPrefix)
    THEN [calls |-> <<>>, ret |-> FALSE, threw |-> FALSE]
    ELSE LET data == Slice(line, 6) IN
         IF data = DoneText
         THEN [calls |-> <<OnComplete>>, ret |-> TRUE, threw |-> FALSE]
         ELSE LET parsed == JSONParse(data) IN
              IF parsed.type = "SyntaxError"
              THEN [calls |-> <<>>, ret |-> FALSE, threw |-> TRUE]
              ELSE IF parsed.type = "error"
              THEN [calls |-> <<OnError(IF parsed.text # <<>> THEN parsed.text
                                        ELSE UnknownError)>>,
                    ret |-> FALSE, threw |-> TRUE]
              ELSE IF parsed.text # <<>>
              THEN [calls |-> <<OnChunk(parsed.text)>>, ret |-> FALSE, threw |-> FALSE]
              ELSE [calls |-> <<>>, ret |-> FALSE, threw |-> FALSE]

\* the body of the for loop: catch (parseError) takes whatever the try block
\* threw, the StreamError included, and the loop goes on
BaseProcessLine(line) ==
    LET t == BaseTryLine(line) IN [calls |-> t.calls, ret |-> t.ret]

RECURSIVE BaseProcessLines(_, _)
BaseProcessLines(lines, acc) ==
    IF lines = <<>> THEN [calls |-> acc, ret |-> FALSE]
    ELSE LET o == BaseProcessLine(Head(lines)) IN
         IF o.ret THEN [calls |-> acc \o o.calls, ret |-> TRUE]
         ELSE BaseProcessLines(Tail(lines), acc \o o.calls)

BaseProcessChunk(chunk) == BaseProcessLines(ChunkLines(chunk), <<>>)

\* processStream is called with the stream and reaches the loop head
BaseProcessStream ==
    /\ pc[1] = "idle"
    /\ \E srv \in StreamServers : server' = [server EXCEPT ![1] = srv]
    /\ Step(1, LoopTop(1), <<>>, <<>>)
    /\ UNCHANGED <<aborted, status, pos, abortedAt, sent>>

\* reader.read() returns a chunk; the caller's signal is looked at again
\* only at the loop head
BaseReadChunk ==
    /\ pc[1] = "read"
    /\ pos[1] < Len(Wire(server[1]))
    /\ LET o == BaseProcessChunk(Wire(server[1])[pos[1] + 1]) IN
       Step(1, IF o.ret THEN "resolved" ELSE LoopTop(1), o.calls, <<>>)
    /\ pos' = [pos EXCEPT ![1] = @ + 1]
    /\ UNCHANGED <<aborted, server, status, abortedAt, sent>>

\* reader.read() returns done
BaseReadDone ==
    /\ pc[1] = "read"
    /\ pos[1] = Len(Wire(server[1]))
    /\ Step(1, "resolved", <<>>, <<>>)
    /\ UNCHANGED <<aborted, server, status, pos, abortedAt, sent>>

\* reader.read() rejects: the outer catch wraps the error in a StreamError
BaseReadFailed ==
    /\ pc[1] = "read"
    /\ Step(1, "rejected", <<>>, StreamErrorMessage)
    /\ UNCHANGED <<aborted, server, status, pos, abortedAt, sent>>

NextBase ==
    \/ BaseProcessStream /\ Frame
    \/ BaseReadChunk /\ Frame
    \/ BaseReadDone /\ Frame
    \/ BaseReadFailed /\ Frame
    \/ CallerAbort /\ Frame

SpecBase == InitStream /\ [][NextBase]_vars

(***************************************************************************)
(* C38: once an error record has been read (no terminator before it),      *)
(* processStream has rejected with a StreamError at the chunk that carries *)
(* the record, onError was called exactly once, as the last call, and no   *)
(* onChunk call was made for a line after the record.                      *)
(***************************************************************************)
C38_ErrorRecordEndsBaseStream ==
    Ending(Delivered(1)) = "error" =>
        LET rec == Delivered(1)[Len(Live(Delivered(1))) + 1] IN
        /\ pc[1] = "rejected"
        /\ thrown[1] = StreamErrorMessage
        /\ Ending(AllLines(SubSeq(server[1].chunks, 1, pos[1] - 1))) = "open"
        /\ Len(ErrorCalls(calls[1])) = 1
        /\ calls[1][Len(calls[1])] =
               OnError(IF rec.text # <<>> THEN rec.text ELSE UnknownError)
        /\ ChunkArgs(calls[1]) = FragmentsOf(Live(Delivered(1)))


(***************************************************************************)
(* BaseApiService.makeRequest with the built-in interceptors.              *)
(***************************************************************************)
\* setupBuiltInInterceptors: the request interceptors, in the order added
setupBuiltInInterceptors(dev) ==
    (IF dev THEN <<"logging">> ELSE <<>>) \o <<"errorHandling", "contentType", "timeout">>

\* onRequest of a built-in interceptor; errorHandling has none
onRequest(name, config) ==
    CASE name = "logging" -> config
      [] name = "contentType" ->
            IF config.method = "POST" /\ ~config.contentType
            THEN [config EXCEPT !.contentType = TRUE]
            ELSE config
      [] name = "timeout" -> [config EXCEPT !.signal = "timeout", !.timer = TRUE]
      [] OTHER -> config

\* RequestInterceptors.process
RECURSIVE process(_, _)
process(config, interceptors) ==
    IF interceptors = <<>> THEN config
    ELSE process(onRequest(Head(interceptors), config), Tail(interceptors))

\* the requestConfig makeRequest builds
requestConfig(hasController) ==
    [method |-> "POST", contentType |-> TRUE,
     signal |-> IF hasController THEN "caller" ELSE "none", timer |-> FALSE]

\* ErrorFactory.fromFetchError
fromFetchError(e) ==
    IF e.name = "AbortError" THEN Err("TimeoutError", <<"Request", "timeout", "after", "0ms">>)
    ELSE IF Includes(e.message, <<"Failed", "to", "fetch">>)
    THEN Err("ConnectionError", e.message)
    ELSE IF Includes(e.message, <<"NetworkError">>) THEN Err("NetworkError", e.message)
    ELSE Err("ApiError", e.message)

\* the signal fetch was given is aborted
SignalAborted(q) ==
    \/ q.signal = "caller" /\ q.callerAborted
    \/ q.signal = "timeout" /\ q.timeoutAborted

\* config.timeout of the service; 0 when it is not set
ConfigTimeouts == {0, 1, 2}

RequestFrame ==
    UNCHANGED <<svcVars, storeVars, viewVars, now, clears, cache, lastSet, ret, models,
                contextsStore>>

\* makeRequest up to its fetch call, with the caller's controller passed
MakeRequest ==
    /\ apiRequest.stage = "idle"
    /\ \E dev \in BOOLEAN, timeout \in ConfigTimeouts :
          LET processedConfig == process(requestConfig(TRUE),
                                         setupBuiltInInterceptors(dev))
          IN  apiRequest' = [apiRequest EXCEPT
                  !.stage = "fetch", !.dev = dev,
                  !.signal = processedConfig.signal,
                  !.timeoutMs = IF ~processedConfig.timer THEN 0
                                ELSE IF timeout = 0 THEN DefaultTimeout ELSE timeout]
    /\ RequestFrame

\* the caller calls abort() on the controller it passed
AbortCallerController ==
    /\ apiRequest.stage \in {"idle", "fetch"}
    /\ ~apiRequest.callerAborted
    /\ apiRequest' = [apiRequest EXCEPT !.callerAborted = TRUE]
    /\ RequestFrame

\* a millisecond of the request passes
RequestTick ==
    /\ apiRequest.stage = "fetch"
    /\ apiRequest.elapsed < MaxElapsed
    /\ apiRequest' = [apiRequest EXCEPT !.elapsed = @ + 1]
    /\ RequestFrame

\* the setTimeout callback of the timeout interceptor runs
TimerFires ==
    /\ apiRequest.stage # "idle"
    /\ apiRequest.timeoutMs # 0
    /\ apiRequest.elapsed >= apiRequest.timeoutMs
    /\ ~apiRequest.timeoutAborted
    /\ apiRequest' = [apiRequest EXCEPT !.timeoutAborted = TRUE]
    /\ RequestFrame

\* fetch rejects with an AbortError because the signal it was given aborted
FetchSignalAborted ==
    /\ apiRequest.stage = "fetch"
    /\ SignalAborted(apiRequest)
    /\ apiRequest' = [apiRequest EXCEPT !.stage = "rejected",
                                        !.error = fromFetchError(AbortError)]
    /\ RequestFrame

\* fetch rejects for a reason of the network
FetchRejects ==
    /\ apiRequest.stage = "fetch"
    /\ ~SignalAborted(apiRequest)
    /\ \E m \in FetchFailures :
          apiRequest' = [apiRequest EXCEPT !.stage = "rejected",
                                          !.error = fromFetchError(Err("TypeError", m))]
    /\ RequestFrame

\* fetch resolves and the response interceptors pass the response on
FetchResolves ==
    /\ apiRequest.stage = "fetch"
    /\ ~SignalAborted(apiRequest)
    /\ apiRequest' = [apiRequest EXCEPT !.stage = "resolved"]
    /\ RequestFrame

NextRequest ==
    \/ MakeRequest
    \/ AbortCallerController
    \/ RequestTick
    \/ TimerFires
    \/ FetchSignalAborted
    \/ FetchRejects
    \/ FetchResolves

SpecRequest == Init /\ [][NextRequest]_vars

(***************************************************************************)
(* C39: while the fetch of makeRequest is pending, the signal handed to    *)
(* fetch is aborted as soon as the caller's controller is aborted or the   *)
(* timeout timer has fired, and a call rejects with a TimeoutError only    *)
(* when the timer fired.                                                   *)
(***************************************************************************)
C39_CallerAbortReachesFetch ==
    /\ apiRequest.stage = "fetch" =>
           (SignalAborted(apiRequest) <=>
               (apiRequest.callerAborted \/ apiRequest.timeoutAborted))
    /\ (apiRequest.stage = "rejected" /\ apiRequest.error.name = "TimeoutError") =>
           apiRequest.timeoutAborted

====
